---- MODULE Spec2Model ----
(***************************************************************************)
(* CodeFlow component map: the static-analysis and graph-construction      *)
(* pipeline (language extractors, graph builder, depth-limited projection, *)
(* Mermaid projection).  Strings are TLA+ strings; a character is a string *)
(* of length one.                                                          *)
(***************************************************************************)
EXTENDS Integers, Sequences, FiniteSets, TLC

VARIABLES
  parseResults,   \* ParseResult[] handed to buildGraph
  graph,          \* the ComponentGraph under consideration (NoGraph before a build)
  view,           \* last result of filterGraphByDepth: [focus, depth, graph] or NoView
  diagram,        \* last result of generateMermaid: [maxNodes, out] or NoDiagram
  files,          \* the scanned files: sequence of [filePath, content]
  scan,           \* the parseWorkspace call in progress: its loops and its token
  edits,          \* live edit tracking: activeEdits and the scheduled timers
  text,           \* a string handed to a string function, and what it returned
  monitor,        \* the TerminalMonitor, its terminal and its timers
  pc              \* position of the pipeline

vars == <<parseResults, graph, view, diagram, files, scan, edits, text, monitor, pc>>

-----------------------------------------------------------------------------
(* Bounds of the model *)

MaxDecls == 2
MaxImports == 2
MaxGraphNodes == 4
MaxGraphEdges == 3
MaxDepth == 3
MaxStatements == 2
MaxClock == 2
MaxFiles == 3
MaxChanges == 2
MaxTokens == 3
MaxPrompts == 2
MaxSends == 3

-----------------------------------------------------------------------------
(* JavaScript string primitives *)

At(s, i) == SubSeq(s, i, i)

Min(S) == CHOOSE x \in S : \A y \in S : x <= y
Max(S) == CHOOSE x \in S : \A y \in S : x >= y

startsWith(s, p) == Len(s) >= Len(p) /\ SubSeq(s, 1, Len(p)) = p
endsWith(s, p) == Len(s) >= Len(p) /\ SubSeq(s, Len(s) - Len(p) + 1, Len(s)) = p

\* String.prototype.indexOf, 1-based; 0 when absent
indexOfFrom(s, p, from) ==
  LET hits == {i \in from..(Len(s) - Len(p) + 1) : SubSeq(s, i, i + Len(p) - 1) = p}
  IN IF hits = {} THEN 0 ELSE Min(hits)

indexOf(s, p) == indexOfFrom(s, p, 1)

lastIndexOf(s, p) ==
  LET hits == {i \in 1..(Len(s) - Len(p) + 1) : SubSeq(s, i, i + Len(p) - 1) = p}
  IN IF hits = {} THEN 0 ELSE Max(hits)

includes(s, p) == indexOf(s, p) # 0

\* String.prototype.replace with a string pattern: the first occurrence only
replaceFirst(s, p, r) ==
  LET i == indexOf(s, p)
  IN IF i = 0 THEN s
     ELSE SubSeq(s, 1, i - 1) \o r \o SubSeq(s, i + Len(p), Len(s))

\* String.prototype.split with a non-empty string separator
RECURSIVE split(_, _)
split(s, sep) ==
  LET i == indexOf(s, sep)
  IN IF i = 0 THEN <<s>>
     ELSE <<SubSeq(s, 1, i - 1)>> \o split(SubSeq(s, i + Len(sep), Len(s)), sep)

Whitespace == {" ", "\t", "\n", "\r"}

RECURSIVE trimStart(_)
trimStart(s) ==
  IF Len(s) > 0 /\ At(s, 1) \in Whitespace THEN trimStart(SubSeq(s, 2, Len(s))) ELSE s

RECURSIVE trimEnd(_)
trimEnd(s) ==
  IF Len(s) > 0 /\ At(s, Len(s)) \in Whitespace
  THEN trimEnd(SubSeq(s, 1, Len(s) - 1)) ELSE s

trim(s) == trimEnd(trimStart(s))

RECURSIVE join(_, _)
join(seq, sep) ==
  IF Len(seq) = 0 THEN ""
  ELSE IF Len(seq) = 1 THEN seq[1]
  ELSE seq[1] \o sep \o join(Tail(seq), sep)

\* Array.prototype.includes
Has(seq, x) == \E i \in 1..Len(seq) : seq[i] = x

Indices(seq) == [i \in 1..Len(seq) |-> i]

\* Array.prototype.flat over a sequence of sequences: the element at place <<i, j>>
\* comes after those at the places before it
Flatten(seqs) ==
  LET places == {p \in (1..Len(seqs)) \X (1..Max({0} \cup {Len(seqs[i]) : i \in 1..Len(seqs)})) :
                   p[2] <= Len(seqs[p[1]])}
      before(p) == {q \in places : q[1] < p[1] \/ (q[1] = p[1] /\ q[2] < p[2])}
      place(k) == CHOOSE p \in places : Cardinality(before(p)) = k - 1
  IN [k \in 1..Cardinality(places) |-> seqs[place(k)[1]][place(k)[2]]]

\* the distinct elements in the order of their first occurrence (new Set(seq),
\* or a push guarded by !results.includes(x))
Distinct(seq) ==
  LET firsts == SelectSeq(Indices(seq), LAMBDA i : \A j \in 1..(i - 1) : seq[j] # seq[i])
  IN [k \in 1..Len(firsts) |-> seq[firsts[k]]]

Upper == "ABCDEFGHIJKLMNOPQRSTUVWXYZ"
Lower == "abcdefghijklmnopqrstuvwxyz"
Digits == "0123456789"

\* the characters of a string, as a set
Chars(s) == {SubSeq(s, i, i) : i \in 1..Len(s)}
UpperChars == Chars(Upper)
LowerChars == Chars(Lower)
DigitChars == Chars(Digits)

isUpper(c) == c \in UpperChars
isLower(c) == c \in LowerChars
isDigit(c) == c \in DigitChars
\* the regex class \w
isWord(c) == isUpper(c) \/ isLower(c) \/ isDigit(c) \/ c = "_"

toLowerChar(c) == IF isUpper(c) THEN At(Lower, indexOf(Upper, c)) ELSE c

\* String.prototype.toLowerCase, character by character
RECURSIVE toLowerCase(_)
toLowerCase(s) ==
  IF Len(s) = 0 THEN ""
  ELSE IF Len(s) = 1 THEN toLowerChar(s)
  ELSE toLowerCase(SubSeq(s, 1, Len(s) \div 2))
       \o toLowerCase(SubSeq(s, Len(s) \div 2 + 1, Len(s)))

\* String.prototype.charCodeAt for the characters that occur in paths
charCode(c) ==
  IF isUpper(c) THEN 64 + indexOf(Upper, c)
  ELSE IF isLower(c) THEN 96 + indexOf(Lower, c)
  ELSE IF isDigit(c) THEN 47 + indexOf(Digits, c)
  ELSE IF c = "/" THEN 47
  ELSE IF c = "." THEN 46
  ELSE IF c = "-" THEN 45
  ELSE IF c = "_" THEN 95
  ELSE IF c = " " THEN 32
  ELSE 63

-----------------------------------------------------------------------------
(* 32-bit integer arithmetic on <<high 16 bits, low 16 bits>> *)

Half == 65536

\* one step of the reducer: a = ((a << 5) - a) + code; a & a
hashStep(a, code) ==
  LET t == 31 * a[2] + code
  IN <<(31 * a[1] + (t \div Half)) % Half, t % Half>>

isNegative32(a) == a[1] >= Half \div 2

\* Math.abs of the signed value: the magnitude, which is at most 2^31
abs32(a) ==
  IF isNegative32(a)
  THEN <<(Half - 1 - a[1] + (IF a[2] = 0 THEN 1 ELSE 0)) % Half, (Half - a[2]) % Half>>
  ELSE a

Digits36 == "0123456789abcdefghijklmnopqrstuvwxyz"

\* Number.prototype.toString(36) of a non-negative magnitude
RECURSIVE toString36(_)
toString36(a) ==
  LET t   == (a[1] % 36) * Half + a[2]
      q   == <<a[1] \div 36, t \div 36>>
      dig == At(Digits36, (t % 36) + 1)
  IN IF q = <<0, 0>> THEN dig ELSE toString36(q) \o dig

\* filePath.split('').reduce(..., 0): the accumulator after the first n characters
RECURSIVE hashPrefix(_, _)
hashPrefix(filePath, n) ==
  IF n = 0 THEN <<0, 0>>
  ELSE hashStep(hashPrefix(filePath, n - 1), charCode(At(filePath, n)))

pathHash(filePath) == hashPrefix(filePath, Len(filePath))

generateId(filePath, name) == name \o "_" \o toString36(abs32(pathHash(filePath)))

-----------------------------------------------------------------------------
(* node:path, POSIX flavour *)

RECURSIVE normalizeSegs(_, _)
normalizeSegs(segs, acc) ==
  IF Len(segs) = 0 THEN acc
  ELSE LET s == Head(segs)
       IN IF s = "" \/ s = "." THEN normalizeSegs(Tail(segs), acc)
          ELSE IF s = ".."
               THEN normalizeSegs(Tail(segs),
                      IF Len(acc) = 0 THEN acc ELSE SubSeq(acc, 1, Len(acc) - 1))
               ELSE normalizeSegs(Tail(segs), Append(acc, s))

\* the segments of an absolute path
absSegs(p) == normalizeSegs(split(p, "/"), <<>>)

fromSegs(segs) == "/" \o join(segs, "/")

dirname(p) ==
  LET i == lastIndexOf(p, "/")
  IN IF i = 0 THEN "." ELSE IF i = 1 THEN "/" ELSE SubSeq(p, 1, i - 1)

basename(p) == SubSeq(p, lastIndexOf(p, "/") + 1, Len(p))

\* path.resolve(dir, source) with dir absolute
resolve(dir, source) ==
  IF startsWith(source, "/") THEN fromSegs(absSegs(source))
  ELSE fromSegs(absSegs(dir \o "/" \o source))

\* path.join(a, b) with a absolute
pathJoin(a, b) == fromSegs(absSegs(a \o "/" \o b))

\* path.relative(from, to), both absolute
relative(from, to) ==
  LET f == absSegs(from)
      t == absSegs(to)
      same == {n \in 0..Min({Len(f), Len(t)}) : SubSeq(f, 1, n) = SubSeq(t, 1, n)}
      c == Max(same)
  IN join([i \in 1..(Len(f) - c) |-> ".."] \o SubSeq(t, c + 1, Len(t)), "/")

\* relativePath.replace(/\.[^/.]+$/, '')
stripExtension(p) ==
  LET i == lastIndexOf(p, ".")
  IN IF i = 0 \/ i = Len(p) \/ indexOfFrom(p, "/", i) # 0 THEN p
     ELSE SubSeq(p, 1, i - 1)

-----------------------------------------------------------------------------
(* Graph builder *)

\* A Map kept as the sequence of its entries in insertion order.  MapOf(sets) is
\* the Map after map.set(sets[1].key, sets[1].val), map.set(sets[2].key, ...), ...:
\* a key keeps the place of its first set and holds the value of its last one.
MapOf(sets) ==
  LET firsts == SelectSeq(Indices(sets),
                  LAMBDA i : \A j \in 1..(i - 1) : sets[j].key # sets[i].key)
      last(k) == Max({j \in 1..Len(sets) : sets[j].key = k})
  IN [n \in 1..Len(firsts) |->
        [key |-> sets[firsts[n]].key, val |-> sets[last(sets[firsts[n]].key)].val]]

MapHas(m, k) == \E i \in 1..Len(m) : m[i].key = k
MapGet(m, k) == m[CHOOSE i \in 1..Len(m) : m[i].key = k].val

\* const node = { ...comp, editStatus: 'idle' }
NodeOf(comp) ==
  [id |-> comp.id, name |-> comp.name, filePath |-> comp.filePath, line |-> comp.line,
   type |-> comp.type, language |-> comp.language, description |-> comp.description,
   exports |-> comp.exports, editStatus |-> "idle"]

\* buildGraph, first pass: one node per component of every result, in order.
\* An entry is the node together with the filePath of the result it came from.
collectNodes(results) ==
  Flatten([r \in 1..Len(results) |->
    [c \in 1..Len(results[r].components) |->
      [node |-> NodeOf(results[r].components[c]),
       file |-> results[r].filePath,
       result |-> r]]])

\* componentMap: node id -> index of the node object stored under it
buildComponentMap(entries) ==
  MapOf([i \in 1..Len(entries) |-> [key |-> entries[i].node.id, val |-> i]])

\* fileToComponents: filePath -> indices of the nodes of that result
buildFileToComponents(results, entries) ==
  MapOf([r \in 1..Len(results) |->
    [key |-> results[r].filePath,
     val |-> SelectSeq(Indices(entries), LAMBDA i : entries[i].result = r)]])

\* the keys one node registers in exportToComponent, in the order of the two loops
exportKeys(entry, rootPath) ==
  LET ex  == entry.node.exports
      rel == relative(rootPath, entry.file)
  IN [e \in 1..Len(ex) |-> entry.file \o ":" \o ex[e]]
     \o Flatten([e \in 1..Len(ex) |->
          << rel \o ":" \o ex[e], stripExtension(rel) \o ":" \o ex[e] >>])

buildExportToComponent(entries, rootPath) ==
  MapOf(Flatten([i \in 1..Len(entries) |->
    LET keys == exportKeys(entries[i], rootPath)
    IN [k \in 1..Len(keys) |-> [key |-> keys[k], val |-> i]]]))

Extensions == <<".ts", ".tsx", ".js", ".jsx", ".py", ".cs", "">>

\* for (const name of names) { get(path:name); push unless included }: the
\* components found under one candidate path, in the order of the names
lookupNames(path, names, exportToComponent) ==
  LET hit(n) == MapHas(exportToComponent, path \o ":" \o n)
      found == SelectSeq(names, hit)
  IN [i \in 1..Len(found) |-> MapGet(exportToComponent, path \o ":" \o found[i])]

\* the relative branch of resolveImport: every extension in turn, the file
\* itself and then its index file; results.includes keeps the first occurrence
resolveRelative(source, names, importingFile, exportToComponent) ==
  IF startsWith(source, ".")
  THEN LET resolvedPath == resolve(dirname(importingFile), source)
       IN Distinct(Flatten([x \in 1..Len(Extensions) |->
            lookupNames(resolvedPath \o Extensions[x], names, exportToComponent)
            \o lookupNames(pathJoin(resolvedPath, "index" \o Extensions[x]), names,
                           exportToComponent)]))
  ELSE <<>>

\* key.split(':').pop()
exportNameOf(key) == SubSeq(key, lastIndexOf(key, ":") + 1, Len(key))

\* a global scan that falls back on every exported component when no name matches
resolveByNameOrAny(names, exportToComponent) ==
  LET matching == SelectSeq(exportToComponent, LAMBDA e : Has(names, exportNameOf(e.key)))
  IN IF Len(matching) > 0 THEN Distinct([i \in 1..Len(matching) |-> matching[i].val])
     ELSE Distinct([i \in 1..Len(exportToComponent) |-> exportToComponent[i].val])

\* a global scan that stops at the first entry whose name matches
resolveByNameFirst(names, exportToComponent) ==
  LET matching == SelectSeq(exportToComponent, LAMBDA e : Has(names, exportNameOf(e.key)))
  IN IF Len(matching) > 0 THEN <<matching[1].val>> ELSE <<>>

\* the global scan over the entries of exportToComponent
resolveByName(names, exportToComponent) ==
  LET matching == SelectSeq(exportToComponent, LAMBDA e : Has(names, exportNameOf(e.key)))
  IN Distinct([i \in 1..Len(matching) |-> matching[i].val])

\* a resolution that adds the matches of the global scan in every case
resolveImportWithScan(source, names, importingFile, exportToComponent) ==
  Distinct(resolveRelative(source, names, importingFile, exportToComponent)
           \o resolveByName(names, exportToComponent))

\* resolveImport: indices of the target nodes
resolveImport(source, names, importingFile, exportToComponent) ==
  LET results == resolveRelative(source, names, importingFile, exportToComponent)
  IN IF Len(results) = 0 THEN resolveByName(names, exportToComponent) ELSE results

\* fileToComponents.get(result.filePath) || []
sourceComponents(fileToComponents, filePath) ==
  IF MapHas(fileToComponents, filePath) THEN MapGet(fileToComponents, filePath) ELSE <<>>

\* for (const source of sourceComponents) for (const target of targetComponents):
\* what one import statement visits
visitsOfImport(entries, sources, targets, names) ==
  Flatten([s \in 1..Len(sources) |->
    [t \in 1..Len(targets) |->
       [source |-> entries[sources[s]].node.id,
        target |-> entries[targets[t]].node.id,
        names  |-> names]]])

\* the two outer loops of the second pass: results, then their imports
allVisits(results, entries, fileToComponents, exportToComponent) ==
  Flatten([r \in 1..Len(results) |->
    Flatten([m \in 1..Len(results[r].imports) |->
      visitsOfImport(entries,
                     sourceComponents(fileToComponents, results[r].filePath),
                     resolveImport(results[r].imports[m].source, results[r].imports[m].names,
                                   results[r].filePath, exportToComponent),
                     results[r].imports[m].names)])])

\* the (source, target, names) visits of the innermost loop body of the second
\* pass, in loop order; the body runs only when source.id !== target.id
importVisits(results, entries, rootPath) ==
  SelectSeq(allVisits(results, entries, buildFileToComponents(results, entries),
                      buildExportToComponent(entries, rootPath)),
            LAMBDA v : v.source # v.target)

\* a builder that records names only from the second visit of a pair on
mergedNamesLaterOnly(vs) ==
  Flatten([k \in 1..Len(vs) |-> IF k = 1 THEN <<>> ELSE vs[k].names])

\* the names of the edge (source, target) after its visits vs[1], vs[2], ...:
\* the first visit pushes the edge with names = imp.names; each later visit
\* appends its names that existingEdge.names does not include yet
mergedNames(vs) ==
  LET seen(k) == UNION {{vs[j].names[n] : n \in 1..Len(vs[j].names)} : j \in 1..(k - 1)}
  IN Flatten([k \in 1..Len(vs) |->
       IF k = 1 THEN vs[1].names
       ELSE SelectSeq(vs[k].names, LAMBDA n : n \notin seen(k))])

\* the (source, target) pairs visited, in the order of their first visits
visitPairs(visits) ==
  Distinct([i \in 1..Len(visits) |-> <<visits[i].source, visits[i].target>>])

\* edges.find(same source and target) merges into the edge pushed by the first
\* visit of the pair, so there is one edge per visited pair
edgesOfPairs(visits, pairs) ==
  [p \in 1..Len(pairs) |->
     [source |-> pairs[p][1], target |-> pairs[p][2], type |-> "imports",
      names |-> mergedNames(SelectSeq(visits,
                  LAMBDA v : <<v.source, v.target>> = pairs[p]))]]

edgesOfVisits(visits) == edgesOfPairs(visits, visitPairs(visits))

\* buildGraph, second pass
importEdges(results, entries, rootPath) ==
  edgesOfVisits(importVisits(results, entries, rootPath))

\* the names listed after a marker of a description, trimmed
extendsNames(description) ==
  LET parts == split(replaceFirst(description, "Extends:", ""), ",")
  IN [i \in 1..Len(parts) |-> trim(parts[i])]

implementsNames(description) ==
  LET parts == split(split(description, "Implements:")[2], ",")
  IN [i \in 1..Len(parts) |-> trim(parts[i])]

\* for (const [_id, potentialBase] of componentMap.entries()) ... break
firstBase(componentMap, entries, baseName, nodeId) ==
  LET hits == {i \in 1..Len(componentMap) :
                 /\ entries[componentMap[i].val].node.name = baseName
                 /\ entries[componentMap[i].val].node.id # nodeId}
  IN IF hits = {} THEN <<>> ELSE <<entries[componentMap[Min(hits)].val].node.id>>

firstInterface(componentMap, entries, interfaceName) ==
  LET hits == {i \in 1..Len(componentMap) :
                 entries[componentMap[i].val].node.name = interfaceName}
  IN IF hits = {} THEN <<>> ELSE <<entries[componentMap[Min(hits)].val].node.id>>

inheritanceEdge(sourceId, targets, type) ==
  [i \in 1..Len(targets) |->
     [source |-> sourceId, target |-> targets[i], type |-> type, names |-> <<>>]]

\* the edges detectInheritance pushes for one component of one result
detectFor(comp, componentMap, entries) ==
  IF ~MapHas(componentMap, comp.id) THEN <<>>
  ELSE LET node == entries[MapGet(componentMap, comp.id)].node
           bases == IF startsWith(node.description, "Extends:")
                    THEN extendsNames(node.description) ELSE <<>>
           interfaces == IF includes(node.description, "Implements:")
                         THEN implementsNames(node.description) ELSE <<>>
       IN Flatten([b \in 1..Len(bases) |->
            inheritanceEdge(node.id, firstBase(componentMap, entries, bases[b], node.id),
                            "extends")])
          \o Flatten([n \in 1..Len(interfaces) |->
               inheritanceEdge(node.id, firstInterface(componentMap, entries, interfaces[n]),
                               "implements")])

\* detectInheritance(result, componentMap, edges): the edges it pushes
detectInheritance(result, componentMap, entries) ==
  Flatten([c \in 1..Len(result.components) |->
             detectFor(result.components[c], componentMap, entries)])

\* buildGraph, third pass
inheritanceEdges(results, componentMap, entries) ==
  Flatten([r \in 1..Len(results) |-> detectInheritance(results[r], componentMap, entries)])

\* a builder that stamps each node id with the time of the build
graphOfClocked(results, entries, rootPath, now) ==
  [nodes     |-> [i \in 1..Len(entries) |->
                    [entries[i].node EXCEPT !.id = @ \o "_" \o ToString(now)]],
   edges     |-> importEdges(results, entries, rootPath)
                 \o inheritanceEdges(results, buildComponentMap(entries), entries),
   rootPath  |-> rootPath,
   generatedAt |-> now,
   languages |-> Distinct([i \in 1..Len(entries) |-> entries[i].node.language]),
   built     |-> TRUE]

\* the returned graph, given the nodes collected by the first pass
graphOf(results, entries, rootPath, now) ==
  [nodes     |-> [i \in 1..Len(entries) |-> entries[i].node],
   edges     |-> importEdges(results, entries, rootPath)
                 \o inheritanceEdges(results, buildComponentMap(entries), entries),
   rootPath  |-> rootPath,
   generatedAt |-> now,
   languages |-> Distinct([i \in 1..Len(entries) |-> entries[i].node.language]),
   built     |-> TRUE]

\* buildGraph(parseResults, rootPath) run when Date.now() reads now
buildGraph(results, rootPath, now) ==
  graphOf(results, collectNodes(results), rootPath, now)

-----------------------------------------------------------------------------
(* graph/builder.ts: filterGraphByDepth *)

Ids(nodes) == {nodes[i].id : i \in 1..Len(nodes)}

\* a traversal that keeps every neighbour at the depth of the node it came from
bfsPushesSameDepth(edges, id, currentDepth, visited) ==
  Flatten([e \in 1..Len(edges) |->
    (IF edges[e].source = id /\ edges[e].target \notin visited
     THEN <<[id |-> edges[e].target, depth |-> currentDepth]>> ELSE <<>>)
    \o (IF edges[e].target = id /\ edges[e].source \notin visited
        THEN <<[id |-> edges[e].source, depth |-> currentDepth]>> ELSE <<>>)])

\* a traversal that follows edges only from source to target
bfsPushesOutgoing(edges, id, currentDepth, visited) ==
  Flatten([e \in 1..Len(edges) |->
    IF edges[e].source = id /\ edges[e].target \notin visited
    THEN <<[id |-> edges[e].target, depth |-> currentDepth + 1]>> ELSE <<>>])

\* the queue entries one visited id pushes, in the order of graph.edges
bfsPushes(edges, id, currentDepth, visited) ==
  Flatten([e \in 1..Len(edges) |->
    (IF edges[e].source = id /\ edges[e].target \notin visited
     THEN <<[id |-> edges[e].target, depth |-> currentDepth + 1]>> ELSE <<>>)
    \o (IF edges[e].target = id /\ edges[e].source \notin visited
        THEN <<[id |-> edges[e].source, depth |-> currentDepth + 1]>> ELSE <<>>)])

\* while (queue.length > 0) { shift; continue if visited or too deep; add; push }
RECURSIVE bfs(_, _, _, _)
bfs(edges, depth, visited, queue) ==
  IF queue = <<>> THEN visited
  ELSE IF Head(queue).id \in visited \/ Head(queue).depth > depth
       THEN bfs(edges, depth, visited, Tail(queue))
       ELSE bfs(edges, depth, visited \cup {Head(queue).id},
                Tail(queue) \o bfsPushes(edges, Head(queue).id, Head(queue).depth,
                                         visited \cup {Head(queue).id}))

filterGraphByDepth(g, focusNodeId, depth) ==
  LET visited == bfs(g.edges, depth, {}, <<[id |-> focusNodeId, depth |-> 0]>>)
  IN [nodes     |-> SelectSeq(g.nodes, LAMBDA n : n.id \in visited),
      edges     |-> SelectSeq(g.edges, LAMBDA e : e.source \in visited /\ e.target \in visited),
      rootPath  |-> g.rootPath,
      generatedAt |-> g.generatedAt,
      languages |-> g.languages,
      built     |-> g.built]

-----------------------------------------------------------------------------
(* graph/mermaid.ts *)

DEFAULT_CONFIG == [direction |-> "TB", theme |-> "default", showLabels |-> TRUE, maxNodes |-> 50]

RECURSIVE sanitizeIdStripping(_)
\* a sanitizer that removes the special characters
sanitizeIdStripping(id) ==
  IF Len(id) = 0 THEN ""
  ELSE (IF isWord(At(id, 1)) THEN At(id, 1) ELSE "")
       \o sanitizeIdStripping(SubSeq(id, 2, Len(id)))

\* id.replace(/[^a-zA-Z0-9_]/g, '_')
RECURSIVE sanitizeId(_)
sanitizeId(id) ==
  IF Len(id) = 0 THEN ""
  ELSE IF Len(id) = 1 THEN (IF isWord(id) THEN id ELSE "_")
  ELSE sanitizeId(SubSeq(id, 1, Len(id) \div 2))
       \o sanitizeId(SubSeq(id, Len(id) \div 2 + 1, Len(id)))

\* connectionCounts.get(id) || 0: one for every edge end that is the id
connectionCount(edges, id) ==
  Cardinality({e \in 1..Len(edges) : edges[e].source = id})
  + Cardinality({e \in 1..Len(edges) : edges[e].target = id})

\* a cap that takes the nodes in collection order
sortNotAtAll(nodes, edges) == nodes

\* [...nodes].sort((a, b) => count(b) - count(a)): a stable sort, descending
sortByConnections(nodes, edges) ==
  LET count == [i \in 1..Len(nodes) |-> connectionCount(edges, nodes[i].id)]
      ahead == [i \in 1..Len(nodes) |->
                  Cardinality({j \in 1..Len(nodes) :
                     count[j] > count[i] \/ (count[j] = count[i] /\ j < i)})]
  IN [k \in 1..Len(nodes) |-> nodes[CHOOSE i \in 1..Len(nodes) : ahead[i] = k - 1]]

\* Array.prototype.slice(0, end)
slice0(seq, end) ==
  LET stop == IF end < 0 THEN Max({Len(seq) + end, 0}) ELSE Min({end, Len(seq)})
  IN SubSeq(seq, 1, stop)

\* a cap that cuts the nodes and leaves the edges as they are
limitNodesOnly(g, maxNodes) ==
  IF Len(g.nodes) > maxNodes
  THEN [nodes |-> slice0(sortByConnections(g.nodes, g.edges), maxNodes), edges |-> g.edges]
  ELSE [nodes |-> g.nodes, edges |-> g.edges]

\* the nodes and edges generateMermaid draws
limitNodes(g, maxNodes) ==
  IF Len(g.nodes) > maxNodes
  THEN LET nodes == slice0(sortByConnections(g.nodes, g.edges), maxNodes)
       IN [nodes |-> nodes,
           edges |-> SelectSeq(g.edges,
                       LAMBDA e : e.source \in Ids(nodes) /\ e.target \in Ids(nodes))]
  ELSE [nodes |-> g.nodes, edges |-> g.edges]

\* groupNodesByType: types in order of first appearance, each with its nodes
groupNodesByType(nodes) ==
  LET types == Distinct([i \in 1..Len(nodes) |-> nodes[i].type])
  IN [t \in 1..Len(types) |->
        [key |-> types[t], val |-> SelectSeq(nodes, LAMBDA n : n.type = types[t])]]

getSubgraphName(type) ==
  CASE type = "component" -> "Components"
    [] type = "class"     -> "Classes"
    [] type = "function"  -> "Functions"
    [] type = "module"    -> "Modules"
    [] type = "service"   -> "Services"
    [] type = "hook"      -> "Hooks"
    [] type = "context"   -> "Context"
    [] type = "store"     -> "State"
    [] type = "api"       -> "API"
    [] type = "util"      -> "Utilities"
    [] type = "type"      -> "Types"
    [] type = "config"    -> "Config"
    [] OTHER              -> "Other"

getNodeShape(type) ==
  CASE type = "component"         -> [open |-> "[", close |-> "]"]
    [] type \in {"hook", "function"} -> [open |-> "([", close |-> "])"]
    [] type \in {"service", "api"}   -> [open |-> "[[", close |-> "]]"]
    [] type \in {"context", "store"} -> [open |-> "[(", close |-> ")]"]
    [] type = "class"             -> [open |-> "[/", close |-> "/]"]
    [] type \in {"type", "config"}   -> [open |-> "{{", close |-> "}}"]
    [] type = "util"              -> [open |-> "(", close |-> ")"]
    [] OTHER                      -> [open |-> "[", close |-> "]"]

\* the icons are written here by their names
getStatusIcon(status) ==
  CASE status = "queued"    -> ":hourglass:"
    [] status = "editing"   -> ":pencil:"
    [] status = "completed" -> ":check:"
    [] status = "error"     -> ":cross:"
    [] status = "skipped"   -> ":skip:"
    [] status = "manual"    -> ":person:"
    [] OTHER                -> ""

\* formatNode: the statement id open "label" close, kept by its parts
formatNode(node) ==
  LET statusIcon == getStatusIcon(node.editStatus)
  IN [id    |-> sanitizeId(node.id),
      open  |-> getNodeShape(node.type).open,
      label |-> IF statusIcon # "" THEN statusIcon \o " " \o node.name ELSE node.name,
      close |-> getNodeShape(node.type).close]

getEdgeArrow(type) ==
  CASE type = "imports"    -> "-->"
    [] type = "exports"    -> "-.->"
    [] type = "extends"    -> "===>"
    [] type = "implements" -> "-.->"
    [] type = "uses"       -> "-->"
    [] type = "provides"   -> "o-->"
    [] type = "consumes"   -> "-->o"
    [] OTHER               -> "-->"

\* formatEdge: the statement source arrow |"label"| target, kept by its parts
formatEdge(edge, showLabels) ==
  [source |-> sanitizeId(edge.source),
   arrow  |-> getEdgeArrow(edge.type),
   label  |-> IF showLabels /\ Len(edge.names) > 0
              THEN join(slice0(edge.names, 3), ", ")
                   \o (IF Len(edge.names) > 3 THEN "..." ELSE "")
              ELSE "",
   target |-> sanitizeId(edge.target)]

\* one "class a,b,c name" line of generateStyles, or none
classLine(nodes, Test(_), class) ==
  LET chosen == SelectSeq(nodes, Test)
  IN IF Len(chosen) > 0
     THEN <<[ids |-> [i \in 1..Len(chosen) |-> sanitizeId(chosen[i].id)], class |-> class]>>
     ELSE <<>>

\* generateStyles: the class assignments, after the fixed classDef lines
generateStyles(nodes) ==
  classLine(nodes, LAMBDA n : n.type = "component", "component")
  \o classLine(nodes, LAMBDA n : n.type = "service", "service")
  \o classLine(nodes, LAMBDA n : n.type = "hook", "hook")
  \o classLine(nodes, LAMBDA n : n.type = "context" \/ n.type = "store", "context")
  \o classLine(nodes, LAMBDA n : n.type = "api", "api")
  \o classLine(nodes, LAMBDA n : n.type = "util", "util")
  \o classLine(nodes, LAMBDA n : n.editStatus = "editing", "editing")
  \o classLine(nodes, LAMBDA n : n.editStatus = "completed", "completed")
  \o classLine(nodes, LAMBDA n : n.editStatus = "error", "error")
  \o classLine(nodes, LAMBDA n : n.editStatus = "queued", "queued")

\* one subgraph per type that has nodes
subgraphsOf(groups) ==
  [t \in 1..Len(groups) |->
     [name   |-> getSubgraphName(groups[t].key),
      shapes |-> [i \in 1..Len(groups[t].val) |-> formatNode(groups[t].val[i])]]]

\* the statements of the diagram of the drawn nodes and edges, section by section
diagramOf(g, drawn) ==
  [direction |-> DEFAULT_CONFIG.direction,
   subgraphs |-> subgraphsOf(groupNodesByType(drawn.nodes)),
   links     |-> [e \in 1..Len(drawn.edges) |->
                    formatEdge(drawn.edges[e], DEFAULT_CONFIG.showLabels)],
   clicks    |-> [i \in 1..Len(drawn.nodes) |->
                    [id      |-> sanitizeId(drawn.nodes[i].id),
                     url     |-> "vscode://file/" \o drawn.nodes[i].filePath,
                     line    |-> drawn.nodes[i].line,
                     tooltip |-> relative(g.rootPath, drawn.nodes[i].filePath)]],
   classes   |-> generateStyles(drawn.nodes)]

\* generateMermaid(graph, { maxNodes })
generateMermaid(g, maxNodes) == diagramOf(g, limitNodes(g, maxNodes))

\* a traversal that follows edges only from source to target
focusedPushesOutgoing(edges, id, d) ==
  Flatten([e \in 1..Len(edges) |->
    IF edges[e].source = id THEN <<[id |-> edges[e].target, d |-> d + 1]>> ELSE <<>>])

\* the queue entries one visited id pushes in generateFocusedMermaid: every
\* neighbour, visited or not
focusedPushes(edges, id, d) ==
  Flatten([e \in 1..Len(edges) |->
    (IF edges[e].source = id THEN <<[id |-> edges[e].target, d |-> d + 1]>> ELSE <<>>)
    \o (IF edges[e].target = id THEN <<[id |-> edges[e].source, d |-> d + 1]>> ELSE <<>>)])

\* while (queue.length > 0) { shift; continue if visited or d > depth; add; push }
RECURSIVE focusedVisit(_, _, _, _)
focusedVisit(edges, depth, visited, queue) ==
  IF queue = <<>> THEN visited
  ELSE IF Head(queue).id \in visited \/ Head(queue).d > depth
       THEN focusedVisit(edges, depth, visited, Tail(queue))
       ELSE focusedVisit(edges, depth, visited \cup {Head(queue).id},
                         Tail(queue) \o focusedPushes(edges, Head(queue).id, Head(queue).d))

\* filteredGraph of generateFocusedMermaid
focusedGraph(g, focusNodeId, depth) ==
  LET visited == focusedVisit(g.edges, depth, {}, <<[id |-> focusNodeId, d |-> 0]>>)
  IN [nodes     |-> SelectSeq(g.nodes, LAMBDA n : n.id \in visited),
      edges     |-> SelectSeq(g.edges, LAMBDA e : e.source \in visited /\ e.target \in visited),
      rootPath  |-> g.rootPath,
      generatedAt |-> g.generatedAt,
      languages |-> g.languages,
      built     |-> g.built]

\* return generateMermaid(filteredGraph): the default configuration applies
generateDefault(g) == generateMermaid(g, DEFAULT_CONFIG.maxNodes)

\* generateFocusedMermaid(graph, focusNodeId, depth)
generateFocusedMermaid(g, focusNodeId, depth) ==
  generateDefault(focusedGraph(g, focusNodeId, depth))

-----------------------------------------------------------------------------
(* The ParseResult lists handed to buildGraph *)

RootPath == "/r"

NoGraph ==
  [nodes |-> <<>>, edges |-> <<>>, rootPath |-> "", generatedAt |-> 0,
   languages |-> <<>>, built |-> FALSE]
NoScan == [running |-> FALSE]
NoText == [given |-> FALSE]
NoMonitor == [initialized |-> FALSE]
NoEdits == [activeEdits |-> <<>>, timers |-> {}, changes |-> 0]
NoView == [taken |-> FALSE]
NoDiagram == [drawn |-> FALSE]

\* all sequences over S of length lo..hi
SeqsOf(S, lo, hi) == UNION {[1..n -> S] : n \in lo..hi}

\* a declaration as an extractor emits it
Decl(filePath, name, type, language, description, exports) ==
  [id |-> generateId(filePath, name), name |-> name, filePath |-> filePath, line |-> 1,
   type |-> type, language |-> language, description |-> description, exports |-> exports]

Result(filePath, components, imports) ==
  [filePath |-> filePath, components |-> components, imports |-> imports, errors |-> <<>>]

ImportOf(source, names) == [source |-> source, names |-> names]

\* TypeScript files: A declares Foo and Bar, B declares Bar and imports
ImportedPaths == {"/r/A.ts", "/r/A/index.ts", "/r/x/A.ts"}
ImportingPath == "/r/B.ts"

ImportedDecls(filePath) ==
  {Decl(filePath, "Foo", "function", "typescript", "", <<"Foo">>),
   Decl(filePath, "Bar", "function", "typescript", "", <<"Bar">>),
   Decl(filePath, "Foo", "function", "typescript", "", <<>>)}

ImportingDecls ==
  {Decl(ImportingPath, "Bar", "component", "typescript", "", <<>>),
   Decl(ImportingPath, "Bar", "component", "typescript", "", <<"Bar">>)}

ImportPool ==
  {ImportOf("./A", <<"Foo">>), ImportOf("./A", <<"Foo", "Foo">>),
   ImportOf("./A", <<"Bar", "Foo">>), ImportOf("react", <<"Foo">>),
   ImportOf("./C", <<"Zed">>)}

ImportInputs ==
  {IF first THEN <<a, b>> ELSE <<b, a>> :
     first \in BOOLEAN,
     a \in UNION {{Result(f, cs, <<>>) : cs \in SeqsOf(ImportedDecls(f), 1, MaxDecls)} :
                    f \in ImportedPaths},
     b \in {Result(ImportingPath, <<d>>, is) :
              d \in ImportingDecls, is \in SeqsOf(ImportPool, 0, MaxImports)}}

\* Python files: classes Base and D with the descriptions parsePythonClasses writes
ClassPaths == <<"/r/m.py", "/r/n.py">>

ClassDecls(filePath) ==
  {Decl(filePath, "Base", "class", "python", "", <<"Base">>),
   Decl(filePath, "Base", "class", "python", "Extends: Base", <<"Base">>),
   Decl(filePath, "D", "class", "python", "", <<"D">>),
   Decl(filePath, "D", "class", "python", "Extends: Base", <<"D">>),
   Decl(filePath, "D", "class", "python", "Extends: Base, Base", <<"D">>),
   Decl(filePath, "D", "class", "python", "Extends: Base, note='Implements: D, x'", <<"D">>)}

ClassInputs ==
  {IF first THEN <<m, n>> ELSE <<n, m>> :
     first \in BOOLEAN,
     m \in {Result(ClassPaths[1], cs, <<>>) : cs \in SeqsOf(ClassDecls(ClassPaths[1]), 0, MaxDecls)},
     n \in {Result(ClassPaths[2], cs, <<>>) : cs \in SeqsOf(ClassDecls(ClassPaths[2]), 0, 1)}}

\* the list with its elements in the order f gives
permute(results, f) == [i \in 1..Len(results) |-> results[f[i]]]

\* three files in every order: Foo is exported by /r/A.ts and by a second file
\* (of the same base name, or of the same name in another directory), and B
\* imports
TripleInputs ==
  {permute(<<a, b, c>>, f) :
     f \in Permutations(1..3),
     a \in {Result("/r/A.ts", <<Decl("/r/A.ts", "Foo", "function", "typescript", "", <<"Foo">>)>>,
                   <<>>)},
     c \in {Result(q, <<Decl(q, "Foo", "function", "javascript", "", <<"Foo">>)>>, <<>>) :
              q \in {"/r/A.js", "/r/x/A.ts"}},
     b \in {Result(ImportingPath, <<d>>, is) :
              d \in ImportingDecls, is \in SeqsOf(ImportPool, 1, MaxImports)}}

BuildInputs == ImportInputs \cup ClassInputs \cup TripleInputs

-----------------------------------------------------------------------------
(* Specification SpecBuild: buildGraph applied to a list of ParseResults *)

InitBuild ==
  /\ parseResults \in BuildInputs
  /\ graph = NoGraph
  /\ view = NoView
  /\ diagram = NoDiagram
  /\ files = <<>>
  /\ scan = NoScan
  /\ monitor = NoMonitor
  /\ text = NoText
  /\ edits = NoEdits
  /\ pc = "parsed"

\* currentGraph = buildGraph(parseResults, rootPath): the clock has moved on
\* since the graph it replaces was stamped
BuildGraph ==
  /\ pc = "parsed"
  /\ graph.generatedAt < MaxClock
  /\ graph' = buildGraph(parseResults, RootPath, graph.generatedAt + 1)
  /\ pc' = "built"
  /\ UNCHANGED <<parseResults, view, diagram, files, text, monitor, edits, scan>>

NextBuild == BuildGraph

SpecBuild == InitBuild /\ [][NextBuild]_vars

-----------------------------------------------------------------------------
(* Claims about buildGraph *)

EdgeKey(e) == <<e.source, e.target, e.type>>

\* C1: in every graph buildGraph returns there is at most one edge for every
\* triple (source id, target id, relationship type), whether the edge is an
\* imports, an extends or an implements edge
C1_AtMostOneEdgePerTriple ==
  graph.built =>
    \A i, j \in 1..Len(graph.edges) :
      i # j => EdgeKey(graph.edges[i]) # EdgeKey(graph.edges[j])

\* C2: no edge of a graph buildGraph returns has its source id equal to its
\* target id, whatever the relationship type
C2_NoSelfEdges ==
  graph.built => \A i \in 1..Len(graph.edges) : graph.edges[i].source # graph.edges[i].target

\* the names lists of the import statements that contributed to the pair
\* (source, target), in the order they were processed
ContributedNames(source, target) ==
  LET visits == SelectSeq(importVisits(parseResults, collectNodes(parseResults), RootPath),
                          LAMBDA v : v.source = source /\ v.target = target)
  IN Flatten([i \in 1..Len(visits) |-> visits[i].names])

\* C3: the names of every imports edge (s, t) of a built graph are the
\* duplicate-free union, in order of first appearance, of the names of all
\* import statements that contributed to the pair (s, t)
C3_NamesAreDuplicateFreeUnion ==
  graph.built =>
    \A i \in 1..Len(graph.edges) :
      graph.edges[i].type = "imports" =>
        graph.edges[i].names
          = Distinct(ContributedNames(graph.edges[i].source, graph.edges[i].target))

\* the basic import scenario: file A declares only an exported Foo, file B
\* declares only Bar and contains only import { Foo } from './A'
FileADeclaresFoo(r) ==
  /\ r.filePath \in {"/r/A.ts", "/r/A/index.ts"}
  /\ Len(r.components) = 1
  /\ r.components[1].name = "Foo"
  /\ Has(r.components[1].exports, "Foo")
  /\ r.imports = <<>>

FileBImportsFoo(r) ==
  /\ r.filePath = ImportingPath
  /\ Len(r.components) = 1
  /\ r.components[1].name = "Bar"
  /\ r.imports = <<ImportOf("./A", <<"Foo">>)>>

BasicImportScenario ==
  /\ Len(parseResults) = 2
  /\ \E a, b \in 1..2 : FileADeclaresFoo(parseResults[a]) /\ FileBImportsFoo(parseResults[b])

BasicImportEdge ==
  LET a == CHOOSE i \in 1..2 : FileADeclaresFoo(parseResults[i])
      b == CHOOSE i \in 1..2 : FileBImportsFoo(parseResults[i])
  IN [source |-> parseResults[b].components[1].id,
      target |-> parseResults[a].components[1].id,
      type   |-> "imports",
      names  |-> <<"Foo">>]

\* C7: when file A declares an exported Foo and file B declares Bar and
\* imports { Foo } from './A', the built graph has exactly one edge: from Bar
\* to Foo, of type imports, with names [Foo]
C7_BasicImportGivesOneEdge ==
  (graph.built /\ BasicImportScenario) => graph.edges = <<BasicImportEdge>>

C7_Witness ==
  /\ graph.built
  /\ BasicImportScenario
  /\ parseResults[1].filePath = ImportingPath
  /\ parseResults[2].filePath = "/r/A/index.ts"
  /\ Len(graph.edges) = 1
  /\ graph.edges[1].names = <<"Foo">>

\* the nodes other than the node at place i that carry the name
OthersNamed(name, i) ==
  {j \in 1..Len(graph.nodes) :
     graph.nodes[j].name = name /\ graph.nodes[j].id # graph.nodes[i].id}

ExtendsTargets(i, name) ==
  {graph.edges[e].target : e \in {e \in 1..Len(graph.edges) :
     /\ graph.edges[e].type = "extends"
     /\ graph.edges[e].source = graph.nodes[i].id
     /\ \E j \in 1..Len(graph.nodes) :
          graph.nodes[j].id = graph.edges[e].target /\ graph.nodes[j].name = name}}

\* C9: for every declaration whose description begins with "Extends:" and
\* every base name in it that some other node carries, the built graph has
\* an extends edge from the declaration to the first such node in
\* node-collection order, and to no other node of that name
C9_ExtendsEdgeToFirstMatch ==
  graph.built =>
    \A i \in 1..Len(graph.nodes) :
      startsWith(graph.nodes[i].description, "Extends:") =>
        LET bases == extendsNames(graph.nodes[i].description)
        IN \A b \in 1..Len(bases) :
             OthersNamed(bases[b], i) # {} =>
               ExtendsTargets(i, bases[b])
                 = {graph.nodes[Min(OthersNamed(bases[b], i))].id}

-----------------------------------------------------------------------------
(* Specification SpecGraph: the projections applied to a component graph *)

\* nodes as buildGraph stores them, in collection order
GraphNodePool ==
  <<NodeOf(Decl("/r/A.ts", "Foo", "function", "typescript", "", <<"Foo">>)),
    NodeOf(Decl("/r/B.ts", "Bar", "component", "typescript", "", <<"Bar">>)),
    NodeOf(Decl("/r/m.py", "Base", "class", "python", "", <<"Base">>)),
    NodeOf(Decl("/r/m.py", "D", "class", "python", "Extends: Base", <<"D">>)),
    NodeOf(Decl("/r/B.ts", "useBar", "hook", "typescript", "", <<"useBar">>)),
    NodeOf(Decl("/r/A.ts", "api", "util", "typescript", "", <<"api">>))>>

\* an id no node carries
AbsentId == generateId("/r/C.ts", "Zed")

\* the graphs over the first n nodes of the pool: every list of at most
\* MaxGraphEdges edges between them, self-edges and repeated edges included
GraphsWith(nodes, edgePool) ==
  {[nodes |-> nodes, edges |-> es, rootPath |-> RootPath, generatedAt |-> 1,
    languages |-> Distinct([i \in 1..Len(nodes) |-> nodes[i].language]), built |-> TRUE] :
     es \in SeqsOf(edgePool, 0, MaxGraphEdges)}

EdgePool(ids) ==
  {[source |-> s, target |-> t, type |-> "imports", names |-> <<"Foo">>] : s \in ids, t \in ids}

GraphsOver(n) ==
  GraphsWith(SubSeq(GraphNodePool, 1, n), EdgePool(Ids(SubSeq(GraphNodePool, 1, n))))

GraphInputs == UNION {GraphsOver(n) : n \in 0..Min({MaxGraphNodes, Len(GraphNodePool)})}

InitGraph ==
  /\ graph \in GraphInputs
  /\ parseResults = <<>>
  /\ view = NoView
  /\ diagram = NoDiagram
  /\ files = <<>>
  /\ scan = NoScan
  /\ monitor = NoMonitor
  /\ text = NoText
  /\ edits = NoEdits
  /\ pc = "built"

\* filterGraphByDepth(graph, focusNodeId, depth)
FilterGraph ==
  /\ pc = "built"
  /\ \E focusNodeId \in Ids(graph.nodes) \cup {AbsentId}, depth \in 0..MaxDepth :
       view' = [taken |-> TRUE, focus |-> focusNodeId, depth |-> depth,
                graph |-> filterGraphByDepth(graph, focusNodeId, depth)]
  /\ pc' = "filtered"
  /\ UNCHANGED <<parseResults, graph, diagram, files, text, monitor, edits, scan>>

\* generateMermaid(graph, { maxNodes }), or generateMermaid(graph) with the default
DrawGraph ==
  /\ pc = "built"
  /\ \E maxNodes \in (0..MaxGraphNodes) \cup {DEFAULT_CONFIG.maxNodes} :
       diagram' = [drawn |-> TRUE, maxNodes |-> maxNodes,
                   out |-> generateMermaid(graph, maxNodes)]
  /\ pc' = "drawn"
  /\ UNCHANGED <<parseResults, graph, view, files, text, monitor, edits, scan>>

NextGraph == FilterGraph \/ DrawGraph

SpecGraph == InitGraph /\ [][NextGraph]_vars

-----------------------------------------------------------------------------
(* Claims about filterGraphByDepth *)

\* the ids joined to id by an edge, in either direction
Neighbours(g, id) ==
  {g.edges[e].target : e \in {e \in 1..Len(g.edges) : g.edges[e].source = id}}
  \cup {g.edges[e].source : e \in {e \in 1..Len(g.edges) : g.edges[e].target = id}}

\* the node ids of g at undirected hop distance at most k from node f of g
WithinHops(g, f, k) ==
  LET reach[i \in 0..k] ==
        IF i = 0 THEN {f} \cap Ids(g.nodes)
        ELSE reach[i - 1] \cup UNION {Neighbours(g, id) : id \in reach[i - 1]}
  IN reach[k]

Elems(seq) == {seq[i] : i \in 1..Len(seq)}

\* C4: for a focus node f of G and a hop limit k, filterGraphByDepth(G, f, k)
\* returns nodes and edges that are subsets of G's, contains f, and every
\* returned node is within k undirected hops of f
C4_FilterIsContainedAndReachable ==
  (view.taken /\ view.focus \in Ids(graph.nodes)) =>
    /\ Elems(view.graph.nodes) \subseteq Elems(graph.nodes)
    /\ Elems(view.graph.edges) \subseteq Elems(graph.edges)
    /\ view.focus \in Ids(view.graph.nodes)
    /\ Ids(view.graph.nodes) \subseteq WithinHops(graph, view.focus, view.depth)

C4_Witness ==
  /\ view.taken
  /\ view.focus \in Ids(graph.nodes)
  /\ view.depth = 1
  /\ Len(graph.nodes) = 4
  /\ Len(view.graph.nodes) = 2
  /\ Len(graph.edges) = 3
  /\ Len(view.graph.edges) = 1
  /\ WithinHops(graph, view.focus, 3) = Ids(graph.nodes)

\* C5: filterGraphByDepth(G, f, k) returns exactly the nodes of G at undirected
\* hop distance at most k from f, each once, and exactly the edges of G whose
\* two endpoints are returned nodes; when f is no node of G it returns no
\* nodes and no edges
C5_FilterIsExactlyTheBall ==
  view.taken =>
    /\ view.graph.nodes
         = SelectSeq(graph.nodes,
                     LAMBDA n : n.id \in WithinHops(graph, view.focus, view.depth))
    /\ view.graph.edges
         = SelectSeq(graph.edges,
                     LAMBDA e : /\ e.source \in Ids(view.graph.nodes)
                                /\ e.target \in Ids(view.graph.nodes))
    /\ view.focus \notin Ids(graph.nodes)
         => (view.graph.nodes = <<>> /\ view.graph.edges = <<>>)

C5_Witness ==
  /\ view.taken
  /\ view.depth = 2
  /\ Len(graph.nodes) = 4
  /\ Len(graph.edges) = 3
  /\ Len(view.graph.nodes) = 3
  /\ Len(view.graph.edges) = 2
  /\ WithinHops(graph, view.focus, 3) = Ids(graph.nodes)
  /\ view.graph.nodes[1].id # view.focus

-----------------------------------------------------------------------------
(* Claims about generateMermaid *)

\* the identifiers of the shapes of a diagram, subgraph after subgraph
ShapeIds(out) ==
  Flatten([t \in 1..Len(out.subgraphs) |->
    [i \in 1..Len(out.subgraphs[t].shapes) |-> out.subgraphs[t].shapes[i].id]])

\* every node identifier a diagram refers to outside its shapes
ReferencedIds(out) ==
  {out.links[e].source : e \in 1..Len(out.links)}
  \cup {out.links[e].target : e \in 1..Len(out.links)}
  \cup {out.clicks[i].id : i \in 1..Len(out.clicks)}
  \cup UNION {Elems(out.classes[c].ids) : c \in 1..Len(out.classes)}

\* the places in g.nodes of the nodes a diagram draws
KeptNodes(g, out) == {i \in 1..Len(g.nodes) : sanitizeId(g.nodes[i].id) \in Elems(ShapeIds(out))}

\* the number of edge ends at the node: its edge-touch count
TouchCount(g, id) ==
  Cardinality({<<e, end>> \in (1..Len(g.edges)) \X {"source", "target"} :
                 (IF end = "source" THEN g.edges[e].source ELSE g.edges[e].target) = id})

\* C6: when the graph has more nodes than maxNodes, generateMermaid draws
\* exactly maxNodes nodes, no drawn node has a smaller edge-touch count than
\* a dropped one, every identifier referenced by an edge line, a click line
\* or a class assignment is that of a drawn node, the edges drawn are those
\* with both ends drawn, and (for maxNodes >= 1) a most connected node is drawn
C6_CapKeepsTheMostConnected ==
  (diagram.drawn /\ Len(graph.nodes) > diagram.maxNodes) =>
    LET kept == KeptNodes(graph, diagram.out)
        dropped == (1..Len(graph.nodes)) \ kept
    IN /\ Len(ShapeIds(diagram.out)) = diagram.maxNodes
       /\ Cardinality(kept) = diagram.maxNodes
       /\ \A i \in kept, j \in dropped :
            TouchCount(graph, graph.nodes[i].id) >= TouchCount(graph, graph.nodes[j].id)
       /\ ReferencedIds(diagram.out) \subseteq Elems(ShapeIds(diagram.out))
       /\ Len(diagram.out.links)
            = Cardinality({e \in 1..Len(graph.edges) :
                \E i, j \in kept : /\ graph.edges[e].source = graph.nodes[i].id
                                   /\ graph.edges[e].target = graph.nodes[j].id})
       /\ diagram.maxNodes >= 1 =>
            \E i \in kept : \A j \in 1..Len(graph.nodes) :
              TouchCount(graph, graph.nodes[i].id) >= TouchCount(graph, graph.nodes[j].id)

C6_Witness ==
  /\ diagram.drawn
  /\ diagram.maxNodes = 2
  /\ Len(graph.nodes) = 4
  /\ Len(graph.edges) = 3
  /\ Len(diagram.out.links) = 1
  /\ KeptNodes(graph, diagram.out) = {2, 4}
  /\ TouchCount(graph, graph.nodes[3].id) = 1

-----------------------------------------------------------------------------
(* File contents.  A file is a sequence of statements, one per line; a      *)
(* statement records what the extractors' regular expressions capture from  *)
(* its text:                                                                *)
(*   function   [export ]function name() { body }                           *)
(*   arrow      [export ]const name = () => body                            *)
(*   class      [export ]class name [extends base] { }          (TS/JS)     *)
(*              class name[(base)]:                             (Python)    *)
(*              public class name [: base] {                    (C#)        *)
(*   import     import { names } from 'source'                              *)
(*   from       from source import names                                    *)
(*   def        def name():                                                 *)
(*   interface  public interface name {                                     *)
(*   namespace  namespace name {                                            *)
(*   using      using source;                                               *)
(* jsx says that the body holds JSX; base is the text after extends, in the *)
(* parentheses or after the colon ("" when there is none).                  *)

Stmt(kind, name, exported, jsx, base, source, names) ==
  [kind |-> kind, name |-> name, exported |-> exported, jsx |-> jsx, base |-> base,
   source |-> source, names |-> names]

\* the places of the statements of a content that satisfy a test, in text order
Matches(content, Test(_)) == SelectSeq(Indices(content), LAMBDA i : Test(content[i]))

\* a declaration pushed for the statement at place i (its line)
Pushed(content, i, filePath, type, language, description, exports) ==
  [id |-> generateId(filePath, content[i].name), name |-> content[i].name,
   filePath |-> filePath, line |-> i, type |-> type, language |-> language,
   description |-> description, exports |-> exports]

\* if (!components.some(c => c.name === name && c.filePath === filePath)) push,
\* for each candidate in turn
pushNew(components, candidates) ==
  LET all == components \o candidates
      fresh == SelectSeq(Indices(all), LAMBDA i :
                 i <= Len(components) \/ \A j \in 1..(i - 1) : all[j].name # all[i].name)
  IN [k \in 1..Len(fresh) |-> all[fresh[k]]]

-----------------------------------------------------------------------------
(* parser/typescript.ts *)

\* /[A-Z]\w*/ and /[a-z]\w*/ on a captured name
upperInitial(name) == Len(name) > 0 /\ isUpper(At(name, 1))
lowerInitial(name) == Len(name) > 0 /\ isLower(At(name, 1))

\* extends (React.)?(Component|PureComponent): the expression has no word boundary
reactBase(base) ==
  LET b == IF startsWith(base, "React.") THEN SubSeq(base, 7, Len(base)) ELSE base
  IN startsWith(b, "Component") \/ startsWith(b, "PureComponent")

\* the windows of extractFunctionBody
ArrowWindow == 500
ScanWindow == 5000
SignatureChunk == 1000
BodyChunk == 2000

\* content.substring(from - 1, Math.min(from - 1 + chunk, content.length)), for
\* the 1-based place from
chunkFrom(content, from, chunk) == SubSeq(content, from, Min({from - 1 + chunk, Len(content)}))

RECURSIVE scanBody(_, _, _, _, _, _, _)
\* the for loop of extractFunctionBody at the 1-based place i, which runs up to
\* the place last
scanBody(content, i, last, inBody, bodyStart, braceCount, parenCount) ==
  IF i > last THEN chunkFrom(content, bodyStart, BodyChunk)
  ELSE IF ~inBody
    THEN CASE At(content, i) \in Whitespace
                -> scanBody(content, i + 1, last, FALSE, bodyStart, 0, 0)
           [] At(content, i) = "{" -> scanBody(content, i + 1, last, TRUE, i, 1, 0)
           [] At(content, i) = "(" -> scanBody(content, i + 1, last, TRUE, i, 0, 1)
           [] At(content, i) = "<" -> chunkFrom(content, i, BodyChunk)
           [] OTHER -> scanBody(content, i + 1, last, FALSE, bodyStart, 0, 0)
  ELSE IF braceCount > 0
    THEN CASE At(content, i) = "{"
                -> scanBody(content, i + 1, last, TRUE, bodyStart, braceCount + 1, parenCount)
           [] At(content, i) = "}" /\ braceCount = 1 -> SubSeq(content, bodyStart, i)
           [] At(content, i) = "}" /\ braceCount > 1
                -> scanBody(content, i + 1, last, TRUE, bodyStart, braceCount - 1, parenCount)
           [] OTHER -> scanBody(content, i + 1, last, TRUE, bodyStart, braceCount, parenCount)
  ELSE IF parenCount > 0
    THEN CASE At(content, i) = "("
                -> scanBody(content, i + 1, last, TRUE, bodyStart, braceCount, parenCount + 1)
           [] At(content, i) = ")" /\ parenCount = 1 -> SubSeq(content, bodyStart, i)
           [] At(content, i) = ")" /\ parenCount > 1
                -> scanBody(content, i + 1, last, TRUE, bodyStart, braceCount, parenCount - 1)
           [] OTHER -> scanBody(content, i + 1, last, TRUE, bodyStart, braceCount, parenCount)
  ELSE scanBody(content, i + 1, last, TRUE, bodyStart, braceCount, parenCount)

\* the scan from the 1-based place arrowIndex of the arrow: let i = arrowIndex + 2
scanAfter(content, start, arrowIndex) ==
  scanBody(content, arrowIndex + 2, Min({Len(content), start - 1 + ScanWindow}),
           FALSE, arrowIndex + 2, 0, 0)

\* arrow and brace are the 1-based places of the first "=>" and the first "{"
\* from start on, 0 when there is none; arrowIndex-- puts the scan one place
\* after the brace
bodyFrom(content, start, arrow, brace) ==
  IF arrow = 0 \/ arrow > start + ArrowWindow
    THEN IF brace = 0 THEN chunkFrom(content, start, SignatureChunk)
         ELSE scanAfter(content, start, brace - 1)
    ELSE scanAfter(content, start, arrow)

\* extractFunctionBody(content, startIndex), start being startIndex + 1
extractFunctionBody(content, start) ==
  bodyFrom(content, start, indexOfFrom(content, "=>", start), indexOfFrom(content, "{", start))

\* /<[A-Z]\w*[\s/>]/ ... on a whole content: some body holds JSX
hasJSX(content) == \E i \in 1..Len(content) : content[i].jsx

parseImports(content) ==
  LET found == Matches(content, LAMBDA st : st.kind = "import")
  IN [k \in 1..Len(found) |->
        [source |-> content[found[k]].source,
         names  |-> SelectSeq(content[found[k]].names, LAMBDA n : n # "")]]

parseReactComponents(content, filePath, language, components) ==
  LET comp(found) == [k \in 1..Len(found) |->
                        Pushed(content, found[k], filePath, "component", language, "", <<>>)]
      arrows == Matches(content, LAMBDA st :
                  st.kind = "arrow" /\ upperInitial(st.name) /\ st.jsx)
      functions == Matches(content, LAMBDA st :
                     st.kind = "function" /\ upperInitial(st.name) /\ st.jsx)
      classes == Matches(content, LAMBDA st : st.kind = "class" /\ reactBase(st.base))
  IN pushNew(pushNew(pushNew(components, comp(arrows)), comp(functions)), comp(classes))

parseClasses(content, filePath, language, components) ==
  LET found == Matches(content, LAMBDA st : st.kind = "class" /\ ~reactBase(st.base))
  IN pushNew(components,
             [k \in 1..Len(found) |->
                Pushed(content, found[k], filePath, "class", language, "", <<>>)])

parseFunctions(content, filePath, language, components) ==
  LET fn(found) == [k \in 1..Len(found) |->
                      Pushed(content, found[k], filePath, "function", language, "", <<>>)]
      functions == Matches(content, LAMBDA st :
                     st.kind = "function" /\ st.exported /\ lowerInitial(st.name))
      arrows == Matches(content, LAMBDA st :
                  st.kind = "arrow" /\ st.exported /\ lowerInitial(st.name))
  IN pushNew(pushNew(components, fn(functions)), fn(arrows))

\* export const/let/var/function/class name; [...new Set(exports)]
parseExports(content) ==
  LET found == Matches(content, LAMBDA st :
                 st.kind \in {"function", "arrow", "class"} /\ st.exported)
  IN Distinct([k \in 1..Len(found) |-> content[found[k]].name])

inferComponentType(name, filePath, content) ==
  LET lowerName == toLowerCase(name)
      fileName == toLowerCase(basename(filePath))
      dirName == toLowerCase(basename(dirname(filePath)))
  IN IF startsWith(lowerName, "use") THEN "hook"
     ELSE IF includes(lowerName, "context") \/ includes(lowerName, "provider") THEN "context"
     ELSE IF includes(lowerName, "service") \/ dirName = "services" THEN "service"
     ELSE IF includes(lowerName, "api") \/ dirName = "api" THEN "api"
     ELSE IF \/ includes(lowerName, "store") \/ includes(lowerName, "slice")
             \/ includes(lowerName, "reducer") THEN "store"
     ELSE IF \/ includes(lowerName, "util") \/ includes(lowerName, "helper")
             \/ dirName = "utils" \/ dirName = "helpers" THEN "util"
     ELSE IF \/ includes(fileName, ".d.ts") \/ dirName = "types"
             \/ includes(lowerName, "types") THEN "type"
     ELSE IF includes(lowerName, "config") \/ includes(fileName, "config") THEN "config"
     ELSE IF hasJSX(content) THEN "component"
     ELSE "unknown"

\* the declarations as the detection passes leave them, before exports and
\* types are attached
detectTypeScript(filePath, content, language) ==
  parseFunctions(content, filePath, language,
    parseClasses(content, filePath, language,
      parseReactComponents(content, filePath, language, <<>>)))

parseTypeScript(filePath, content, language) ==
  LET detected == detectTypeScript(filePath, content, language)
      exportNames == parseExports(content)
  IN [filePath   |-> filePath,
      components |-> [i \in 1..Len(detected) |->
                        [detected[i] EXCEPT
                           !.exports = SelectSeq(exportNames, LAMBDA exp :
                                         exp = detected[i].name \/ exp = "default"),
                           !.type = inferComponentType(detected[i].name, filePath, content)]],
      imports    |-> parseImports(content),
      errors     |-> <<>>]

-----------------------------------------------------------------------------
(* parser/python.ts *)

parsePythonImports(content) ==
  LET found == Matches(content, LAMBDA st :
                 st.kind = "from" /\ Len(SelectSeq(st.names, LAMBDA n : n # "")) > 0)
  IN [k \in 1..Len(found) |->
        [source |-> content[found[k]].source,
         names  |-> SelectSeq(content[found[k]].names, LAMBDA n : n # "")]]

\* description: bases ? `Extends: ${bases}` : undefined
parsePythonClasses(content, filePath, components) ==
  LET found == Matches(content, LAMBDA st : st.kind = "class")
  IN components \o
     [k \in 1..Len(found) |->
        Pushed(content, found[k], filePath, "class", "python",
               IF content[found[k]].base # "" THEN "Extends: " \o content[found[k]].base
               ELSE "",
               <<content[found[k]].name>>)]

\* def name(: private names and dunder names are skipped
parsePythonFunctions(content, filePath, components) ==
  LET found == Matches(content, LAMBDA st :
                 /\ st.kind = "def"
                 /\ ~(startsWith(st.name, "_") /\ ~startsWith(st.name, "__"))
                 /\ ~(startsWith(st.name, "__") /\ endsWith(st.name, "__")))
  IN components \o
     [k \in 1..Len(found) |->
        Pushed(content, found[k], filePath, "function", "python", "",
               <<content[found[k]].name>>)]

inferPythonComponentType(name, filePath) ==
  LET lowerName == toLowerCase(name)
      fileName == toLowerCase(basename(filePath))
      dirName == toLowerCase(basename(dirname(filePath)))
  IN IF dirName = "views" \/ includes(fileName, "view") THEN "component"
     ELSE IF dirName = "models" \/ includes(fileName, "model") THEN "class"
     ELSE IF includes(lowerName, "service") \/ dirName = "services" THEN "service"
     ELSE IF \/ includes(lowerName, "api") \/ includes(lowerName, "route")
             \/ dirName = "api" \/ dirName = "routes" THEN "api"
     ELSE IF \/ includes(lowerName, "util") \/ includes(lowerName, "helper")
             \/ dirName = "utils" \/ dirName = "helpers" THEN "util"
     ELSE IF \/ includes(lowerName, "config") \/ includes(fileName, "config")
             \/ fileName = "settings.py" THEN "config"
     ELSE IF startsWith(lowerName, "test") \/ startsWith(fileName, "test_") THEN "function"
     ELSE "unknown"

parsePython(filePath, content) ==
  LET detected == parsePythonFunctions(content, filePath,
                    parsePythonClasses(content, filePath, <<>>))
  IN [filePath   |-> filePath,
      components |-> [i \in 1..Len(detected) |->
                        [detected[i] EXCEPT
                           !.type = inferPythonComponentType(detected[i].name, filePath)]],
      imports    |-> parsePythonImports(content),
      errors     |-> <<>>]

-----------------------------------------------------------------------------
(* parser/csharp.ts *)

\* namespace.split('.').pop()
lastSegment(namespace) == SubSeq(namespace, lastIndexOf(namespace, ".") + 1, Len(namespace))

\* using a.b.c; imports the namespace under its last segment
parseCSharpUsings(content) ==
  LET found == Matches(content, LAMBDA st : st.kind = "using")
  IN [k \in 1..Len(found) |->
        [source |-> content[found[k]].source,
         names  |-> <<lastSegment(content[found[k]].source)>>]]

\* content.match(/namespace\s+([\w.]+)/): the first namespace, or none ("")
parseNamespace(content) ==
  LET found == Matches(content, LAMBDA st : st.kind = "namespace")
  IN IF Len(found) > 0 THEN content[found[1]].name ELSE ""

\* description: inheritance ? `Inherits: ${inheritance}` : undefined
parseCSharpClasses(content, filePath, namespace, components) ==
  LET found == Matches(content, LAMBDA st : st.kind = "class")
      fullName(name) == IF namespace # "" THEN namespace \o "." \o name ELSE name
  IN components \o
     [k \in 1..Len(found) |->
        Pushed(content, found[k], filePath, "class", "csharp",
               IF trim(content[found[k]].base) # ""
               THEN "Inherits: " \o trim(content[found[k]].base) ELSE "",
               <<content[found[k]].name, fullName(content[found[k]].name)>>)]

\* interface (I\w+)
parseCSharpInterfaces(content, filePath, namespace, components) ==
  LET found == Matches(content, LAMBDA st :
                 st.kind = "interface" /\ Len(st.name) >= 2 /\ startsWith(st.name, "I"))
  IN components \o
     [k \in 1..Len(found) |->
        Pushed(content, found[k], filePath, "type", "csharp", "",
               <<content[found[k]].name>>)]

\* content.includes(': ' + base): the text of a class or interface with that base
contentHasBase(content, base) ==
  \E i \in 1..Len(content) :
    content[i].kind \in {"class", "interface"} /\ startsWith(content[i].base, base)

\* the TypeError of name[1].toUpperCase() when name[1] is undefined
TypeErrorMessage == "Cannot read properties of undefined (reading 'toUpperCase')"

\* in place of a returned type: the call threw the TypeError
Thrown == "throw TypeError"

\* for the name I the test name[1] === name[1].toUpperCase() throws
inferCSharpComponentType(name, filePath, content) ==
  LET lowerName == toLowerCase(name)
      dirName == toLowerCase(basename(dirname(filePath)))
  IN IF contentHasBase(content, "MonoBehaviour") THEN "component"
     ELSE IF contentHasBase(content, "ScriptableObject") THEN "config"
     ELSE IF includes(lowerName, "service") \/ dirName = "services" THEN "service"
     ELSE IF includes(lowerName, "controller") \/ dirName = "controllers" THEN "api"
     ELSE IF includes(lowerName, "manager") THEN "service"
     ELSE IF includes(lowerName, "repository") \/ includes(lowerName, "repo") THEN "service"
     ELSE IF includes(lowerName, "handler") THEN "function"
     ELSE IF dirName = "models" \/ dirName = "entities" THEN "class"
     ELSE IF startsWith(name, "I") /\ Len(name) < 2 THEN Thrown
     ELSE IF startsWith(name, "I") /\ ~isLower(At(name, 2)) THEN "type"
     ELSE IF \/ includes(lowerName, "util") \/ includes(lowerName, "helper")
             \/ dirName = "utils" THEN "util"
     ELSE IF includes(lowerName, "config") \/ includes(lowerName, "settings") THEN "config"
     ELSE "class"

\* the declarations as the detection passes leave them
detectCSharp(filePath, content, namespace) ==
  parseCSharpInterfaces(content, filePath, namespace,
    parseCSharpClasses(content, filePath, namespace, <<>>))

\* what the inference gives for each declaration, were it asked
csharpTypes(detected, filePath, content) ==
  [i \in 1..Len(detected) |->
     inferCSharpComponentType(detected[i].name, filePath, content)]

\* the first declaration whose inference throws, or 0
firstThrown(types) ==
  IF \E i \in 1..Len(types) : types[i] = Thrown
    THEN CHOOSE i \in 1..Len(types) :
           types[i] = Thrown /\ \A j \in 1..(i - 1) : types[j] # Thrown
    ELSE 0

\* components.forEach(comp => comp.type = ...): the loop ends where the
\* inference throws, and the declarations after that keep their type
forEachType(detected, types, stop) ==
  [i \in 1..Len(detected) |->
     IF stop = 0 \/ i < stop THEN [detected[i] EXCEPT !.type = types[i]]
     ELSE detected[i]]

\* a catch block that gives up what the try block had collected
csharpResultLosingWork(filePath, detected, types, stop, imports) ==
  [filePath   |-> filePath,
   components |-> IF stop = 0 THEN forEachType(detected, types, stop) ELSE <<>>,
   imports    |-> IF stop = 0 THEN imports ELSE <<>>,
   errors     |-> IF stop = 0 THEN <<>> ELSE <<TypeErrorMessage>>]

\* catch (error) { errors.push(error.message) }; return { filePath, components,
\* imports, errors }
csharpResult(filePath, detected, types, stop, imports) ==
  [filePath   |-> filePath,
   components |-> forEachType(detected, types, stop),
   imports    |-> imports,
   errors     |-> IF stop = 0 THEN <<>> ELSE <<TypeErrorMessage>>]

csharpTyped(filePath, content, detected, types) ==
  csharpResult(filePath, detected, types, firstThrown(types), parseCSharpUsings(content))

csharpDetected(filePath, content, detected) ==
  csharpTyped(filePath, content, detected, csharpTypes(detected, filePath, content))

parseCSharp(filePath, content) ==
  csharpDetected(filePath, content, detectCSharp(filePath, content, parseNamespace(content)))

-----------------------------------------------------------------------------
(* parser/index.ts *)

\* path.extname: from the last dot of the base name, unless it is its first character
extname(p) ==
  LET b == basename(p)
      i == lastIndexOf(b, ".")
  IN IF i <= 1 THEN "" ELSE SubSeq(b, i, Len(b))

getLanguageFromExtension(ext) ==
  CASE ext = ".ts"  -> "typescript"
    [] ext = ".tsx" -> "react"
    [] ext = ".js"  -> "javascript"
    [] ext = ".jsx" -> "react"
    [] ext = ".py"  -> "python"
    [] ext = ".cs"  -> "csharp"
    [] OTHER        -> "typescript"

\* the message of the error fs.promises.readFile rejects with
ReadErrorMessage == "EACCES: permission denied"

\* a call that returned value, and a call that threw an Error with a message
Returned(value) == [thrown |-> FALSE, result |-> value]
Throw(message) == [thrown |-> TRUE, message |-> message]

\* switch (language): the default branch is for a language outside the five
dispatch(file, ext, language) ==
  CASE language \in {"typescript", "javascript", "react"}
         -> parseTypeScript(file.filePath, file.content, language)
    [] language = "python" -> parsePython(file.filePath, file.content)
    [] language = "csharp" -> parseCSharp(file.filePath, file.content)
    [] OTHER -> [filePath |-> file.filePath, components |-> <<>>, imports |-> <<>>,
                 errors |-> <<"Unsupported file type: " \o ext>>]

\* parseFile(filePath): the file is read first, then dispatched by extension
parseFileAs(file, ext) ==
  IF file.readable THEN Returned(dispatch(file, ext, getLanguageFromExtension(ext)))
  ELSE Throw(ReadErrorMessage)

parseFile(file) == parseFileAs(file, toLowerCase(extname(file.filePath)))

Patterns == <<".ts", ".tsx", ".js", ".jsx", ".py", ".cs">>

\* glob('**/*' + ext): the files of the tree with that ending
glob(scanned, pattern) == SelectSeq(scanned, LAMBDA f : endsWith(f.filePath, pattern))

\* the try and catch around parseFile: what is pushed onto results for a file
pushedFor(filePath, outcome) ==
  IF outcome.thrown
    THEN <<[filePath |-> filePath, components |-> <<>>, imports |-> <<>>,
            errors |-> <<outcome.message>>]>>
  ELSE IF Len(outcome.result.components) > 0 \/ Len(outcome.result.imports) > 0
    THEN <<outcome.result>>
  ELSE <<>>

processFile(results, file) == results \o pushedFor(file.filePath, parseFile(file))

\* what one pattern adds to the results when no cancellation is requested
processPattern(matching) ==
  Flatten([i \in 1..Len(matching) |-> processFile(<<>>, matching[i])])

\* parseWorkspace without cancellation: pattern by pattern, the files glob
\* yields are parsed
parseWorkspace(scanned) ==
  Flatten([x \in 1..Len(Patterns) |-> processPattern(glob(scanned, Patterns[x]))])

-----------------------------------------------------------------------------
(* Specification Spec: the scanned files are parsed and the graph is built *)

NoBase == ""

TSStatements ==
  {Stmt("function", "foo", TRUE, FALSE, NoBase, "", <<>>),
   Stmt("function", "foo", FALSE, FALSE, NoBase, "", <<>>),
   Stmt("arrow", "foo", TRUE, FALSE, NoBase, "", <<>>),
   Stmt("arrow", "useFoo", TRUE, FALSE, NoBase, "", <<>>),
   Stmt("function", "Foo", TRUE, TRUE, NoBase, "", <<>>),
   Stmt("class", "Foo", TRUE, FALSE, NoBase, "", <<>>),
   Stmt("import", "", FALSE, FALSE, NoBase, "./B", <<"Bar">>)}

TSImporters ==
  {<<Stmt("import", "", FALSE, FALSE, NoBase, "./A", <<"foo">>),
     Stmt("function", "Bar", TRUE, TRUE, NoBase, "", <<>>)>>,
   <<Stmt("arrow", "bar", TRUE, FALSE, NoBase, "", <<>>)>>}

PythonStatements ==
  {Stmt("class", "Base", FALSE, FALSE, NoBase, "", <<>>),
   Stmt("class", "D", FALSE, FALSE, "Base", "", <<>>),
   Stmt("class", "D", FALSE, FALSE, "Base, Base", "", <<>>),
   Stmt("def", "run", FALSE, FALSE, NoBase, "", <<>>),
   Stmt("from", "", FALSE, FALSE, NoBase, "n", <<"Base", "Base">>)}

PythonOthers ==
  {<<Stmt("class", "Base", FALSE, FALSE, NoBase, "", <<>>)>>,
   <<Stmt("class", "D", FALSE, FALSE, "Base", "", <<>>)>>}

CSharpStatements ==
  {Stmt("class", "B", TRUE, FALSE, NoBase, "", <<>>),
   Stmt("class", "D", TRUE, FALSE, "B", "", <<>>),
   Stmt("class", "D", TRUE, FALSE, "B, IB", "", <<>>),
   Stmt("interface", "IB", TRUE, FALSE, NoBase, "", <<>>),
   Stmt("namespace", "N", FALSE, FALSE, NoBase, "", <<>>),
   Stmt("using", "", FALSE, FALSE, NoBase, "System.Text", <<>>)}

CSharpOthers ==
  {<<Stmt("class", "B", TRUE, FALSE, NoBase, "", <<>>)>>,
   <<Stmt("class", "D", TRUE, FALSE, "B", "", <<>>)>>}

\* two paths whose characters differ and whose 32-bit hashes are equal
\* ("Aa" and "BB": 65 * 31 + 97 = 66 * 31 + 66)
HashTwins == <<"/r/Aa.ts", "/r/BB.ts">>

TwinStatements ==
  {Stmt("function", "foo", TRUE, FALSE, NoBase, "", <<>>),
   Stmt("class", "Foo", TRUE, FALSE, NoBase, "", <<>>)}

TwinOthers ==
  {<<Stmt("function", "foo", TRUE, FALSE, NoBase, "", <<>>)>>}

File(filePath, content) == [filePath |-> filePath, content |-> content, readable |-> TRUE]

\* a file that glob lists and readFile fails on
Unreadable(filePath) == [filePath |-> filePath, content |-> <<>>, readable |-> FALSE]

\* a file with any content of at most MaxStatements statements, alone or
\* before or after a second file
FilesOf(path, statements, otherPath, others) ==
  LET first == {File(path, c) : c \in SeqsOf(statements, 0, MaxStatements)}
      second == {File(otherPath, c) : c \in others}
  IN {<<f>> : f \in first}
     \cup {<<f, g>> : f \in first, g \in second}
     \cup {<<g, f>> : f \in first, g \in second}

FileInputs ==
  FilesOf("/r/A.ts", TSStatements, "/r/B.ts", TSImporters)
  \cup FilesOf("/r/m.py", PythonStatements, "/r/n.py", PythonOthers)
  \cup FilesOf("/r/c.cs", CSharpStatements, "/r/d.cs", CSharpOthers)
  \cup FilesOf(HashTwins[1], TwinStatements, HashTwins[2], TwinOthers)

Init ==
  /\ files \in FileInputs
  /\ parseResults = <<>>
  /\ graph = NoGraph
  /\ view = NoView
  /\ diagram = NoDiagram
  /\ scan = NoScan
  /\ monitor = NoMonitor
  /\ text = NoText
  /\ edits = NoEdits
  /\ pc = "scanned"

\* parseWorkspace(rootPath, excludePatterns)
ParseWorkspace ==
  /\ pc = "scanned"
  /\ parseResults' = parseWorkspace(files)
  /\ pc' = "parsed"
  /\ UNCHANGED <<graph, view, diagram, files, text, monitor, edits, scan>>

\* refreshComponentMap(): generateComponentMap runs again over the same tree
\* while currentGraph still holds the graph built before
RefreshComponentMap ==
  /\ pc = "built"
  /\ graph.generatedAt < MaxClock
  /\ pc' = "scanned"
  /\ UNCHANGED <<parseResults, graph, view, diagram, files, text, monitor, edits, scan>>

\* the nodes of currentGraph after handleFileEdit(filePath)
markEditing(nodes, filePath) ==
  [i \in 1..Len(nodes) |->
     IF nodes[i].filePath = filePath
       THEN [nodes[i] EXCEPT !.editStatus = "editing"]
       ELSE nodes[i]]

\* map.set(k, v) and map.delete(k) on a Map kept as its entries in order
mapSet(m, k, v) ==
  IF MapHas(m, k)
    THEN [i \in 1..Len(m) |-> IF m[i].key = k THEN [key |-> k, val |-> v] ELSE m[i]]
    ELSE Append(m, [key |-> k, val |-> v])

mapDelete(m, k) == SelectSeq(m, LAMBDA e : e.key # k)

\* each affected node sets activeEdits[filePath] in turn: the entry names the
\* last node of the file
lastAffected(nodes, filePath) ==
  nodes[Max({i \in 1..Len(nodes) : nodes[i].filePath = filePath})].id

\* handleFileEdit(filePath): a watched file of the graph is being changed
HandleFileEdit ==
  /\ pc = "built"
  /\ edits.changes < MaxChanges
  /\ \E i \in 1..Len(graph.nodes) :
       /\ graph' = [graph EXCEPT !.nodes = markEditing(graph.nodes, graph.nodes[i].filePath)]
       /\ edits' = [edits EXCEPT
            !.activeEdits = mapSet(@, graph.nodes[i].filePath,
                                   [nodeId |-> lastAffected(graph.nodes, graph.nodes[i].filePath),
                                    status |-> "editing"]),
            !.changes = @ + 1]
  /\ UNCHANGED <<parseResults, view, diagram, files, text, monitor, scan, pc>>

Next == ParseWorkspace \/ BuildGraph \/ RefreshComponentMap \/ HandleFileEdit

Spec == Init /\ [][Next]_vars

-----------------------------------------------------------------------------
(* Specification SpecEdit: the status-driving events on the current graph *)

\* const currentEditPlan: EditPlan | null = null
NoPlan == "null"
currentEditPlan == NoPlan

\* currentGraph.nodes.find(n => n.id === id): the place of the first such node, or 0
findNode(nodes, id) ==
  IF \E i \in 1..Len(nodes) : nodes[i].id = id
    THEN Min({i \in 1..Len(nodes) : nodes[i].id = id})
    ELSE 0

\* a node that is marked by being built anew from its name and file
setStatusAnew(g, n, status) ==
  [g EXCEPT !.nodes[n] =
     [NodeOf(Decl(@.filePath, @.name, "unknown", @.language, "", <<>>))
        EXCEPT !.editStatus = status]]

\* node.editStatus = status for the node at place n
setStatus(g, n, status) == [g EXCEPT !.nodes[n].editStatus = status]

\* setTimeout(() => { if (node.editStatus === 'completed') ... }, 5000)
timerFor(n, filePath) == [node |-> n, filePath |-> filePath]

\* node.editStatus = 'completed'; edit.status = 'completed'; setTimeout(...)
completeEdit(st, n, filePath) ==
  [graph |-> setStatus(st.graph, n, "completed"),
   edits |-> [st.edits EXCEPT
                !.activeEdits = mapSet(@, filePath,
                                  [MapGet(@, filePath) EXCEPT !.status = "completed"]),
                !.timers = @ \cup {timerFor(n, filePath)}]]

\* handleFileSaved(filePath): the node named by the active edit of the file
HandleFileSaved ==
  /\ pc = "built"
  /\ \E e \in 1..Len(edits.activeEdits) :
       /\ findNode(graph.nodes, edits.activeEdits[e].val.nodeId) # 0
       /\ graph' = completeEdit([graph |-> graph, edits |-> edits],
                                findNode(graph.nodes, edits.activeEdits[e].val.nodeId),
                                edits.activeEdits[e].key).graph
       /\ edits' = completeEdit([graph |-> graph, edits |-> edits],
                                findNode(graph.nodes, edits.activeEdits[e].val.nodeId),
                                edits.activeEdits[e].key).edits
  /\ UNCHANGED <<parseResults, view, diagram, files, text, monitor, scan, pc>>

\* the body of the loop of checkIdleEdits for entry e, when the edit is older
\* than the idle threshold
idleEntry(st, e, n) ==
  IF /\ st.edits.activeEdits[e].val.status = "editing"
     /\ n # 0
     /\ st.graph.nodes[n].editStatus = "editing"
    THEN completeEdit(st, n, st.edits.activeEdits[e].key)
    ELSE st

RECURSIVE idleEntriesFrom(_, _, _)
\* for (const [filePath, edit] of activeEdits.entries()): old are the files
\* whose last change is more than idleThreshold ago
idleEntriesFrom(st, e, old) ==
  IF e > Len(st.edits.activeEdits) THEN st
  ELSE idleEntriesFrom(
         IF st.edits.activeEdits[e].key \in old
           THEN idleEntry(st, e, findNode(st.graph.nodes, st.edits.activeEdits[e].val.nodeId))
           ELSE st,
         e + 1, old)

\* checkIdleEdits(), each second
CheckIdleEdits ==
  /\ pc = "built"
  /\ \E old \in SUBSET {edits.activeEdits[e].key : e \in 1..Len(edits.activeEdits)} :
       /\ graph' = idleEntriesFrom([graph |-> graph, edits |-> edits], 1, old).graph
       /\ edits' = idleEntriesFrom([graph |-> graph, edits |-> edits], 1, old).edits
  /\ UNCHANGED <<parseResults, view, diagram, files, text, monitor, scan, pc>>

\* a scheduled timer fires: a node still completed goes back to idle and the
\* active edit of the file is deleted
TimerFires ==
  /\ pc = "built"
  /\ \E t \in edits.timers :
       IF graph.nodes[t.node].editStatus = "completed"
         THEN /\ graph' = setStatus(graph, t.node, "idle")
              /\ edits' = [edits EXCEPT !.activeEdits = mapDelete(@, t.filePath),
                                      !.timers = @ \ {t}]
         ELSE /\ graph' = graph
              /\ edits' = [edits EXCEPT !.timers = @ \ {t}]
  /\ UNCHANGED <<parseResults, view, diagram, files, text, monitor, scan, pc>>

\* handleTakeOverEdit({ nodeId }): returns at once while there is no edit plan
HandleTakeOverEdit ==
  /\ pc = "built"
  /\ \E n \in 1..Len(graph.nodes) :
       graph' = IF currentEditPlan = NoPlan THEN graph
                ELSE setStatus(graph, findNode(graph.nodes, graph.nodes[n].id), "manual")
  /\ UNCHANGED <<parseResults, view, diagram, files, text, monitor, scan, edits, pc>>

\* handleSkipComponent({ nodeId }): the same
HandleSkipComponent ==
  /\ pc = "built"
  /\ \E n \in 1..Len(graph.nodes) :
       graph' = IF currentEditPlan = NoPlan THEN graph
                ELSE setStatus(graph, findNode(graph.nodes, graph.nodes[n].id), "skipped")
  /\ UNCHANGED <<parseResults, view, diagram, files, text, monitor, scan, edits, pc>>

\* handleCancelPlan(): every node that is not completed goes back to idle
HandleCancelPlan ==
  /\ pc = "built"
  /\ graph' = IF currentEditPlan = NoPlan THEN graph
              ELSE [graph EXCEPT !.nodes =
                      [i \in 1..Len(graph.nodes) |->
                         IF graph.nodes[i].editStatus # "completed"
                           THEN [graph.nodes[i] EXCEPT !.editStatus = "idle"]
                           ELSE graph.nodes[i]]]
  /\ UNCHANGED <<parseResults, view, diagram, files, text, monitor, scan, edits, pc>>

\* the current graph: some of the first nodes of the pool and at most one edge
EditInputs == {g \in GraphInputs : Len(g.nodes) >= 1 /\ Len(g.edges) <= 1}

InitEdit ==
  /\ graph \in EditInputs
  /\ parseResults = <<>>
  /\ view = NoView
  /\ diagram = NoDiagram
  /\ files = <<>>
  /\ scan = NoScan
  /\ monitor = NoMonitor
  /\ text = NoText
  /\ edits = NoEdits
  /\ pc = "built"

NextEdit ==
  \/ HandleFileEdit \/ HandleFileSaved \/ CheckIdleEdits \/ TimerFires
  \/ HandleTakeOverEdit \/ HandleSkipComponent \/ HandleCancelPlan

SpecEdit == InitEdit /\ [][NextEdit]_vars

\* setInterval(checkIdleEdits, 1000) keeps running and a scheduled timer fires;
\* changing and saving files is up to the user
SpecEditFair == SpecEdit /\ WF_vars(CheckIdleEdits) /\ WF_vars(TimerFires)

-----------------------------------------------------------------------------
(* Specification SpecScan: parseWorkspace step by step, with a cancellation
   token that may be raised at any moment, and parseFile called on one file *)

ScanFilePool ==
  {File("/r/A.ts", <<Stmt("function", "foo", TRUE, FALSE, NoBase, "", <<>>)>>),
   File("/r/B.ts", <<>>),
   Unreadable("/r/u.ts"),
   File("/r/c.cs", <<Stmt("using", "", FALSE, FALSE, NoBase, "System.Text", <<>>),
                     Stmt("class", "B", TRUE, FALSE, NoBase, "", <<>>),
                     Stmt("class", "I", TRUE, FALSE, NoBase, "", <<>>)>>),
   File("/r/m.py", <<Stmt("class", "Base", FALSE, FALSE, NoBase, "", <<>>)>>),
   File("/r/x.txt", <<Stmt("function", "foo", TRUE, FALSE, NoBase, "", <<>>)>>)}

\* the trees of at most MaxFiles files, in the order glob lists them
ScanInputs ==
  {fs \in SeqsOf(ScanFilePool, 0, MaxFiles) :
     \A i, j \in 1..Len(fs) : fs[i] = fs[j] => i = j}

InitScan ==
  /\ files \in ScanInputs
  /\ parseResults = <<>>
  /\ graph = NoGraph
  /\ view = NoView
  /\ diagram = NoDiagram
  /\ scan = NoScan
  /\ monitor = NoMonitor
  /\ text = NoText
  /\ edits = NoEdits
  /\ pc = "scanned"

\* a token that is never seen as cancelled
neverRequested(s) == FALSE

\* cancellationToken?.isCancellationRequested
isCancellationRequested(s) == s.cancelled

\* parseWorkspace is called: const results = []
StartScan ==
  /\ pc = "scanned"
  /\ scan' = [running |-> TRUE, pattern |-> 1, inFiles |-> FALSE, matched |-> <<>>,
              index |-> 1, cancelled |-> FALSE, processed |-> 0]
  /\ parseResults' = <<>>
  /\ pc' = "scanning"
  /\ UNCHANGED <<graph, view, diagram, files, text, monitor, edits>>

\* the host raises the cancellation token
CancelScan ==
  /\ pc = "scanning"
  /\ ~scan.cancelled
  /\ scan' = [scan EXCEPT !.cancelled = TRUE]
  /\ UNCHANGED <<parseResults, graph, view, diagram, files, text, monitor, edits, pc>>

\* for (const pattern of patterns): the token is not set and glob lists the files
GlobPattern ==
  /\ pc = "scanning"
  /\ ~scan.inFiles
  /\ scan.pattern <= Len(Patterns)
  /\ ~isCancellationRequested(scan)
  /\ scan' = [scan EXCEPT !.inFiles = TRUE, !.index = 1,
                          !.matched = glob(files, Patterns[scan.pattern])]
  /\ UNCHANGED <<parseResults, graph, view, diagram, files, text, monitor, edits, pc>>

\* for (const filePath of files): the token is not set and the file is parsed
ParseNextFile ==
  /\ pc = "scanning"
  /\ scan.inFiles
  /\ scan.index <= Len(scan.matched)
  /\ ~isCancellationRequested(scan)
  /\ parseResults' = processFile(parseResults, scan.matched[scan.index])
  /\ scan' = [scan EXCEPT !.index = @ + 1, !.processed = @ + 1]
  /\ UNCHANGED <<graph, view, diagram, files, text, monitor, edits, pc>>

\* the loop over the files ends: none is left, or the token is set (break)
EndOfFiles ==
  /\ pc = "scanning"
  /\ scan.inFiles
  /\ scan.index > Len(scan.matched) \/ isCancellationRequested(scan)
  /\ scan' = [scan EXCEPT !.inFiles = FALSE, !.pattern = @ + 1]
  /\ UNCHANGED <<parseResults, graph, view, diagram, files, text, monitor, edits, pc>>

\* the loop over the patterns ends the same way: return results
ReturnResults ==
  /\ pc = "scanning"
  /\ ~scan.inFiles
  /\ scan.pattern > Len(Patterns) \/ isCancellationRequested(scan)
  /\ scan' = [scan EXCEPT !.running = FALSE]
  /\ pc' = "parsed"
  /\ UNCHANGED <<parseResults, graph, view, diagram, files, text, monitor, edits>>

\* parseFile(filePath) called by itself on a file of the tree
ParseFile ==
  /\ pc = "scanned"
  /\ \E i \in 1..Len(files) :
       scan' = [running |-> FALSE, file |-> files[i], outcome |-> parseFile(files[i])]
  /\ pc' = "parsedFile"
  /\ UNCHANGED <<parseResults, graph, view, diagram, files, text, monitor, edits>>

NextScan ==
  \/ StartScan \/ CancelScan \/ GlobPattern \/ ParseNextFile
  \/ EndOfFiles \/ ReturnResults \/ ParseFile

SpecScan == InitScan /\ [][NextScan]_vars

(* Specification SpecViews: a graph is built, then filtered or drawn *)

NextViews == BuildGraph \/ FilterGraph \/ DrawGraph

SpecViews == InitBuild /\ [][NextViews]_vars

-----------------------------------------------------------------------------
(* Specification SpecFocus: generateFocusedMermaid applied to a component graph *)

\* a hub and the nodes that import it, one more than a diagram shows
StarLeaves == DEFAULT_CONFIG.maxNodes + 1

StarNode(name) ==
  NodeOf(Decl("/r/s/" \o name \o ".ts", name, "function", "typescript", "", <<name>>))

StarNodes == <<StarNode("Hub")>> \o [i \in 1..StarLeaves |-> StarNode("N" \o ToString(i))]

StarGraph ==
  [nodes |-> StarNodes,
   edges |-> [i \in 1..StarLeaves |->
                [source |-> StarNodes[i + 1].id, target |-> StarNodes[1].id,
                 type |-> "imports", names |-> <<"Hub">>]],
   rootPath |-> RootPath, generatedAt |-> 1, languages |-> <<"typescript">>, built |-> TRUE]

FocusInputs == GraphInputs \cup {StarGraph}

\* the nodes a view is focused on: every node of a small graph, the first and
\* the last of a large one, and an id no node carries
FocusChoices(g) ==
  IF Len(g.nodes) <= MaxGraphNodes + 1 THEN Ids(g.nodes) \cup {AbsentId}
  ELSE {g.nodes[1].id, g.nodes[Len(g.nodes)].id}

InitFocus ==
  /\ graph \in FocusInputs
  /\ parseResults = <<>>
  /\ view = NoView
  /\ diagram = NoDiagram
  /\ files = <<>>
  /\ scan = NoScan
  /\ monitor = NoMonitor
  /\ text = NoText
  /\ edits = NoEdits
  /\ pc = "built"

\* generateFocusedMermaid(graph, focusNodeId, depth)
DrawFocused ==
  /\ pc = "built"
  /\ \E focusNodeId \in FocusChoices(graph), depth \in 0..MaxDepth :
       /\ view' = [taken |-> TRUE, focus |-> focusNodeId, depth |-> depth,
                   graph |-> focusedGraph(graph, focusNodeId, depth)]
       /\ diagram' = [drawn |-> TRUE, maxNodes |-> DEFAULT_CONFIG.maxNodes,
                      out |-> generateFocusedMermaid(graph, focusNodeId, depth)]
  /\ pc' = "focused"
  /\ UNCHANGED <<parseResults, graph, files, text, monitor, edits, scan>>

NextFocus == DrawFocused

SpecFocus == InitFocus /\ [][NextFocus]_vars

-----------------------------------------------------------------------------
(* Specification SpecPrompt: TerminalMonitor, its commands and its timer *)

NoPrompt == "null"

\* this.state and the private fields after the constructor and initialize, in
\* a window that has a Claude terminal or has none
MonitorOf(enabled, window) ==
  [initialized |-> TRUE, enabled |-> enabled, approvedCount |-> 0, deniedCount |-> 0,
   pendingPrompt |-> NoPrompt, claudeTerminal |-> window, window |-> window,
   timers |-> 0, detected |-> 0, sent |-> <<>>]

InitPrompt ==
  /\ parseResults = <<>>
  /\ graph = NoGraph
  /\ view = NoView
  /\ diagram = NoDiagram
  /\ files = <<>>
  /\ scan = NoScan
  /\ edits = NoEdits
  /\ text = NoText
  /\ monitor \in {MonitorOf(enabled, window) : enabled \in BOOLEAN, window \in BOOLEAN}
  /\ pc = "monitoring"

\* findOrNotifyNoTerminal: the terminal is looked up again among the window's
findOrNotifyNoTerminal(m) == [m EXCEPT !.claudeTerminal = m.window]

\* approveCurrentEdit(): sendText('y'), approvedCount++, pendingPrompt = null
approveCurrentEdit(m) ==
  IF ~m.claudeTerminal THEN findOrNotifyNoTerminal(m)
  ELSE [m EXCEPT !.sent = Append(@, [text |-> "y", prompt |-> m.pendingPrompt]),
                 !.approvedCount = @ + 1,
                 !.pendingPrompt = NoPrompt]

\* denyCurrentEdit(): sendText('n'), deniedCount++, pendingPrompt = null
denyCurrentEdit(m) ==
  IF ~m.claudeTerminal THEN findOrNotifyNoTerminal(m)
  ELSE [m EXCEPT !.sent = Append(@, [text |-> "n", prompt |-> m.pendingPrompt]),
                 !.deniedCount = @ + 1,
                 !.pendingPrompt = NoPrompt]

\* simulatePromptDetected(filePath): matching stands for
\* !filePath || this.fileMatchesPatterns(filePath)
SimulatePromptDetected ==
  /\ pc = "monitoring"
  /\ monitor.detected < MaxPrompts
  /\ \E matching \in BOOLEAN :
       monitor' = [monitor EXCEPT
                     !.detected = @ + 1,
                     !.pendingPrompt = ToString(monitor.detected + 1),
                     !.timers = IF monitor.enabled /\ matching THEN @ + 1 ELSE @]
  /\ UNCHANGED <<parseResults, graph, view, diagram, files, scan, edits, text, pc>>

\* setTimeout(() => this.approveCurrentEdit(), 100) comes due
AutoApproveTimer ==
  /\ pc = "monitoring"
  /\ monitor.timers > 0
  /\ monitor' = [approveCurrentEdit(monitor) EXCEPT !.timers = @ - 1]
  /\ UNCHANGED <<parseResults, graph, view, diagram, files, scan, edits, text, pc>>

\* the command codeflow.approveEdit
ApproveCurrentEdit ==
  /\ pc = "monitoring"
  /\ Len(monitor.sent) < MaxSends
  /\ monitor' = approveCurrentEdit(monitor)
  /\ UNCHANGED <<parseResults, graph, view, diagram, files, scan, edits, text, pc>>

\* the command codeflow.denyEdit
DenyCurrentEdit ==
  /\ pc = "monitoring"
  /\ Len(monitor.sent) < MaxSends
  /\ monitor' = denyCurrentEdit(monitor)
  /\ UNCHANGED <<parseResults, graph, view, diagram, files, scan, edits, text, pc>>

ClearPendingPrompt ==
  /\ pc = "monitoring"
  /\ monitor' = [monitor EXCEPT !.pendingPrompt = NoPrompt]
  /\ UNCHANGED <<parseResults, graph, view, diagram, files, scan, edits, text, pc>>

ToggleAutoApprove ==
  /\ pc = "monitoring"
  /\ monitor' = [monitor EXCEPT !.enabled = ~@]
  /\ UNCHANGED <<parseResults, graph, view, diagram, files, scan, edits, text, pc>>

\* onDidCloseTerminal of the Claude terminal
CloseTerminal ==
  /\ pc = "monitoring"
  /\ monitor.claudeTerminal
  /\ monitor' = [monitor EXCEPT !.claudeTerminal = FALSE, !.window = FALSE,
                                !.pendingPrompt = NoPrompt]
  /\ UNCHANGED <<parseResults, graph, view, diagram, files, scan, edits, text, pc>>

\* onDidOpenTerminal of a terminal named claude: checkTerminal
OpenTerminal ==
  /\ pc = "monitoring"
  /\ ~monitor.window
  /\ monitor' = [monitor EXCEPT !.claudeTerminal = TRUE, !.window = TRUE]
  /\ UNCHANGED <<parseResults, graph, view, diagram, files, scan, edits, text, pc>>

NextPrompt ==
  \/ SimulatePromptDetected \/ AutoApproveTimer \/ ApproveCurrentEdit \/ DenyCurrentEdit
  \/ ClearPendingPrompt \/ ToggleAutoApprove \/ CloseTerminal \/ OpenTerminal

SpecPrompt == InitPrompt /\ [][NextPrompt]_vars

-----------------------------------------------------------------------------
(* the string functions on their own: extractFunctionBody and sanitizeId *)

\* what a declaration begins with, up to and including the blank after it
Headers == {"function Foo() ", "const Foo = () => "}

Tokens == {"{", "}", "(", ")", "<a/>", "=>", "x", " "}

RECURSIVE concat(_)
concat(tokens) == IF Len(tokens) = 0 THEN "" ELSE Head(tokens) \o concat(Tail(tokens))

Bodies == {concat(t) : t \in UNION {[1..n -> Tokens] : n \in 0..MaxTokens}}

Contents == {h \o b : h \in Headers, b \in Bodies}

IdPaths == {"/r/a.ts", "/r/lib/b.ts", "/r/c.cs"}
IdNames == {"Foo", "use_it", "B2"}
GeneratedIds == {generateId(filePath, name) : filePath \in IdPaths, name \in IdNames}
OtherIds == {"", "a-b", "src/a.ts", "x y.z", "Foo_1", "Foo.1", "Foo-1", "$"}
IdInputs == GeneratedIds \cup OtherIds

InitText ==
  /\ parseResults = <<>>
  /\ graph = NoGraph
  /\ view = NoView
  /\ diagram = NoDiagram
  /\ files = <<>>
  /\ scan = NoScan
  /\ monitor = NoMonitor
  /\ edits = NoEdits
  /\ text \in {[given |-> TRUE, to |-> "extractFunctionBody", input |-> c] : c \in Contents}
            \cup {[given |-> TRUE, to |-> "sanitizeId", input |-> id] : id \in IdInputs}
  /\ pc = "given"

\* extractFunctionBody(content, match.index) for a declaration matched at the
\* beginning of the content
ExtractFunctionBody ==
  /\ pc = "given"
  /\ text.to = "extractFunctionBody"
  /\ text' = [text EXCEPT !.given = FALSE] @@ [result |-> extractFunctionBody(text.input, 1)]
  /\ pc' = "returned"
  /\ UNCHANGED <<parseResults, graph, view, diagram, files, monitor, scan, edits>>

SanitizeId ==
  /\ pc = "given"
  /\ text.to = "sanitizeId"
  /\ text' = [text EXCEPT !.given = FALSE] @@ [result |-> sanitizeId(text.input)]
  /\ pc' = "returned"
  /\ UNCHANGED <<parseResults, graph, view, diagram, files, monitor, scan, edits>>

NextText == ExtractFunctionBody \/ SanitizeId

SpecText == InitText /\ [][NextText]_vars

-----------------------------------------------------------------------------
(* Claims about the extractors *)

\* the ParseResults kept for a file
ResultsOf(filePath) == SelectSeq(parseResults, LAMBDA r : r.filePath = filePath)

IsTypeScriptFile(f) ==
  getLanguageFromExtension(toLowerCase(extname(f.filePath)))
    \in {"typescript", "javascript", "react"}

\* C8: every exported lowercase-initial function or arrow function that the
\* TS/JS extractor detects (parseFunctions pushes it with kind function) is
\* in the returned ParseResult as a declaration of kind function
C8_DetectedFunctionsStayFunctions ==
  pc \in {"parsed", "built"} =>
    \A i \in 1..Len(files) :
      IsTypeScriptFile(files[i]) =>
        LET detected == detectTypeScript(files[i].filePath, files[i].content, "typescript")
        IN \A d \in 1..Len(detected) :
             detected[d].type = "function" =>
               \E r \in 1..Len(parseResults) :
                 /\ parseResults[r].filePath = files[i].filePath
                 /\ \E c \in 1..Len(parseResults[r].components) :
                      /\ parseResults[r].components[c].name = detected[d].name
                      /\ parseResults[r].components[c].type = "function"

\* the class statements of the scanned C# files: <<place of the file, line>>
CSharpClasses ==
  UNION {{<<i, j>> : j \in {j \in 1..Len(files[i].content) :
                              files[i].content[j].kind = "class"}} :
           i \in {i \in 1..Len(files) : toLowerCase(extname(files[i].filePath)) = ".cs"}}

ClassName(d) == files[d[1]].content[d[2]].name
ClassId(d) == generateId(files[d[1]].filePath, ClassName(d))

\* the names of the inheritance list of a class statement
BaseNames(d) ==
  LET parts == split(files[d[1]].content[d[2]].base, ",")
  IN {trim(parts[k]) : k \in 1..Len(parts)}

\* C10: the inheritance list the C# extractor captures reaches the builder in
\* the form it consumes: for a C# class D : B with B declared in the scanned
\* files, the built graph has an extends or implements edge from D to B
C10_CSharpInheritanceGivesEdge ==
  pc = "built" =>
    \A d \in CSharpClasses, b \in CSharpClasses :
      (ClassName(b) \in BaseNames(d) /\ ClassName(b) # ClassName(d)) =>
        \E e \in 1..Len(graph.edges) :
          /\ graph.edges[e].type \in {"extends", "implements"}
          /\ graph.edges[e].source = ClassId(d)
          /\ \E t \in CSharpClasses :
               ClassName(t) = ClassName(b) /\ graph.edges[e].target = ClassId(t)

\* C11: every ParseResult an extractor returns holds at most one declaration
\* per name, so that no two nodes of a built graph share (filePath, name)
C11_OneDeclarationPerName ==
  pc \in {"parsed", "built"} =>
    \A r \in 1..Len(parseResults) :
      \A c, d \in 1..Len(parseResults[r].components) :
        parseResults[r].components[c].name = parseResults[r].components[d].name => c = d

\* C12: node ids are globally unique: two declarations with different
\* (filePath, name) pairs never carry the same generated id
C12_IdsAreGloballyUnique ==
  pc \in {"parsed", "built"} =>
    \A r, q \in 1..Len(parseResults) :
      \A c \in 1..Len(parseResults[r].components), d \in 1..Len(parseResults[q].components) :
        (<<parseResults[r].components[c].filePath, parseResults[r].components[c].name>>
           # <<parseResults[q].components[d].filePath, parseResults[q].components[d].name>>)
          => parseResults[r].components[c].id # parseResults[q].components[d].id

-----------------------------------------------------------------------------
(* Claims about rebuilding the graph *)

nodeIds(g) == [i \in 1..Len(g.nodes) |-> g.nodes[i].id]
edgeSet(g) == {g.edges[i] : i \in 1..Len(g.edges)}

\* a step that replaces a graph built before by a newly built one
IsRebuild == pc = "parsed" /\ pc' = "built" /\ graph.built

C14_EditStatusSurvivesRebuild ==
  [][IsRebuild =>
       \A i \in 1..Len(graph.nodes), j \in 1..Len(graph'.nodes) :
         graph'.nodes[j].id = graph.nodes[i].id =>
           graph'.nodes[j].editStatus = graph.nodes[i].editStatus]_vars

-----------------------------------------------------------------------------
(* Claims about parseWorkspace and parseFile *)

\* the files of the tree that some pattern matches
Matched == SelectSeq(files, LAMBDA f : \E x \in 1..Len(Patterns) : endsWith(f.filePath, Patterns[x]))

\* reading the file failed, or a step of its extractor did
Failed(outcome) == outcome.thrown \/ outcome.result.errors # <<>>

FailureMessage(outcome) ==
  IF outcome.thrown THEN outcome.message ELSE outcome.result.errors[1]

\* the scan ran to its end without being cancelled
ScanCompleted == pc = "parsed" /\ ~scan.cancelled

\* C15: a file whose reading or extraction fails does not abort the scan:
\* every matched file is processed, the call returns, and each failed file is
\* represented by a ParseResult with no declarations, no imports and the
\* failure message among its errors
C15_FailedFileIsEmptyResultWithError ==
  ScanCompleted =>
    /\ scan.processed = Len(Matched)
    /\ \A i \in 1..Len(Matched) :
         Failed(parseFile(Matched[i])) =>
           \E r \in 1..Len(parseResults) :
             /\ parseResults[r].filePath = Matched[i].filePath
             /\ parseResults[r].components = <<>>
             /\ parseResults[r].imports = <<>>
             /\ \E e \in 1..Len(parseResults[r].errors) :
                  parseResults[r].errors[e] = FailureMessage(parseFile(Matched[i]))

\* C16: every ParseResult returned by parseWorkspace has a declaration or an
\* import, whichever files succeed and fail
C16_ReturnedResultsAreNotEmpty ==
  pc = "parsed" =>
    \A r \in 1..Len(parseResults) :
      Len(parseResults[r].components) > 0 \/ Len(parseResults[r].imports) > 0

\* what parseWorkspace pushes for some file of the tree
IsCompleteResult(result) ==
  \E i \in 1..Len(files) : <<result>> = pushedFor(files[i].filePath, parseFile(files[i]))

\* C17: once the cancellation token is raised no further file is read or
\* extracted and the results stay as they are; the only steps left to the call
\* are the two breaks and the return, and it returns at most as many entries
\* as files were processed, each a complete ParseResult
C17_CancellationStopsTheScan ==
  /\ [][(pc = "scanning" /\ scan.cancelled) =>
          /\ scan'.processed = scan.processed
          /\ parseResults' = parseResults]_vars
  /\ [](pc = "parsed" =>
          /\ Len(parseResults) <= scan.processed
          /\ \A r \in 1..Len(parseResults) : IsCompleteResult(parseResults[r]))
  /\ []((pc = "scanning" /\ scan.cancelled) =>
          /\ ~ENABLED GlobPattern
          /\ ~ENABLED ParseNextFile
          /\ ENABLED (EndOfFiles \/ ReturnResults))

\* a scan cancelled after some of the matched files, and returned
C17_Witness ==
  /\ pc = "parsed"
  /\ scan.cancelled
  /\ scan.processed >= 1
  /\ scan.processed < Len(Matched)
  /\ Len(parseResults) >= 1

\* parseFile was called on a file that could be read
ParsedReadableFile == pc = "parsedFile" /\ scan.file.readable

ParsedExtension == toLowerCase(extname(scan.file.filePath))

\* the table of the six extensions
TableLanguage(ext) ==
  CASE ext \in {".ts"} -> "typescript"
    [] ext \in {".js"} -> "javascript"
    [] ext \in {".tsx", ".jsx"} -> "react"
    [] ext \in {".py"} -> "python"
    [] ext \in {".cs"} -> "csharp"

\* C18: parseFile on a readable file whose extension is none of the six gives
\* a ParseResult with no declarations, no imports and an "Unsupported file
\* type" error; for the six extensions the declarations come from the
\* extractor of the language the table gives
C18_UnsupportedExtensionIsRejected ==
  ParsedReadableFile =>
    /\ ~scan.outcome.thrown
    /\ IF ParsedExtension \in {Patterns[x] : x \in 1..Len(Patterns)}
         THEN \A c \in 1..Len(scan.outcome.result.components) :
                scan.outcome.result.components[c].language = TableLanguage(ParsedExtension)
         ELSE /\ scan.outcome.result.components = <<>>
              /\ scan.outcome.result.imports = <<>>
              /\ scan.outcome.result.errors = <<"Unsupported file type: " \o ParsedExtension>>

\* the names of the declarations, in order
namesOf(components) == [c \in 1..Len(components) |-> components[c].name]

\* the statements of the file that declare a class named by the one letter I
ClassesNamedI ==
  SelectSeq(scan.file.content, LAMBDA st : st.kind = "class" /\ st.name = "I")

\* C19: an extractor does not throw, whatever the content: a step that fails
\* (the type inference of a C# class named I) is recorded in errors, and the
\* declarations and imports collected before it are returned
C19_ExtractorsNeverThrow ==
  ParsedReadableFile =>
    /\ ~scan.outcome.thrown
    /\ scan.outcome.result.filePath = scan.file.filePath
    /\ ParsedExtension = ".cs" =>
         /\ namesOf(scan.outcome.result.components)
              = namesOf(detectCSharp(scan.file.filePath, scan.file.content,
                                     parseNamespace(scan.file.content)))
         /\ scan.outcome.result.imports = parseCSharpUsings(scan.file.content)
         /\ ClassesNamedI # <<>> => scan.outcome.result.errors = <<TypeErrorMessage>>
    /\ ParsedExtension # ".cs" => scan.outcome.result.errors = <<>>

\* a C# file whose type inference failed after two declarations and one
\* import had been collected
C19_Witness ==
  /\ ParsedReadableFile
  /\ ParsedExtension = ".cs"
  /\ ClassesNamedI # <<>>
  /\ scan.outcome.result.errors # <<>>
  /\ Len(scan.outcome.result.components) = 2
  /\ Len(scan.outcome.result.imports) = 1

-----------------------------------------------------------------------------
(* Claims about unresolved imports *)

\* the names exported by the declarations of all the ParseResults
ExportedNames ==
  UNION {UNION {{parseResults[r].components[c].exports[x] :
                   x \in 1..Len(parseResults[r].components[c].exports)} :
                c \in 1..Len(parseResults[r].components)} :
         r \in 1..Len(parseResults)}

\* no imported name is exported by any declaration
IsUnresolved(imp) == \A n \in 1..Len(imp.names) : imp.names[n] \notin ExportedNames

\* the ParseResults with import m of result r left out
withoutImport(results, r, m) ==
  [results EXCEPT ![r].imports = SubSeq(@, 1, m - 1) \o SubSeq(@, m + 1, Len(@))]

\* C20: an import none of whose names is exported by any declaration of the
\* ParseResults contributes no edge: the graph is the one built without that
\* import, and the build completes with nothing else recorded
C20_UnresolvedImportGivesNoEdge ==
  pc = "built" =>
    \A r \in 1..Len(parseResults) :
      \A m \in 1..Len(parseResults[r].imports) :
        IsUnresolved(parseResults[r].imports[m]) =>
          graph = buildGraph(withoutImport(parseResults, r, m), RootPath, graph.generatedAt)

\* a graph built from an import of Zed from ./C, which nothing exports, next
\* to an import that gave an edge
C20_Witness ==
  /\ pc = "built"
  /\ \E r \in 1..Len(parseResults) :
       /\ \E m \in 1..Len(parseResults[r].imports) :
            /\ IsUnresolved(parseResults[r].imports[m])
            /\ parseResults[r].imports[m].source = "./C"
       /\ \E m \in 1..Len(parseResults[r].imports) :
            ~IsUnresolved(parseResults[r].imports[m])
  /\ Len(graph.edges) >= 1

-----------------------------------------------------------------------------
(* Claims about live edit tracking *)

\* the graph apart from the editStatus of its nodes
structureOf(g) ==
  [nodes |-> [i \in 1..Len(g.nodes) |-> [g.nodes[i] EXCEPT !.editStatus = "idle"]],
   edges |-> g.edges]

\* C21: a status-driving event (file change, file save, idle check, timer,
\* take-over, skip, cancel plan) changes nothing of the current graph but the
\* editStatus of nodes: the nodes, their id, name, filePath, line, type and
\* exports, and the edges stay as they are
C21_StatusEventsKeepStructure ==
  [][(pc = "built" /\ pc' = "built") => structureOf(graph') = structureOf(graph)]_vars

\* a graph with an edge in which events have left one node completed and
\* another editing
C21_Witness ==
  /\ pc = "built"
  /\ Len(graph.edges) >= 1
  /\ edits.timers # {}
  /\ \E i, j \in 1..Len(graph.nodes) :
       graph.nodes[i].editStatus = "completed" /\ graph.nodes[j].editStatus = "editing"

\* C28: once the change events have stopped, every node that a change event set
\* to editing becomes idle again, also when its file declares several nodes
C28_EditingReturnsToIdle ==
  \A i \in 1..MaxGraphNodes :
    (i <= Len(graph.nodes) /\ graph.nodes[i].editStatus = "editing")
      ~> (i <= Len(graph.nodes) /\ graph.nodes[i].editStatus = "idle")

-----------------------------------------------------------------------------
(* Claims about the order of the ParseResults *)

\* the imports edges as (source, target, set of names)
importEdgeSet(g) ==
  {<<g.edges[e].source, g.edges[e].target,
     {g.edges[e].names[n] : n \in 1..Len(g.edges[e].names)}>> :
     e \in {e \in 1..Len(g.edges) : g.edges[e].type = "imports"}}

\* the graph built from the ParseResults in the order f
builtInOrder(f) == buildGraph(permute(parseResults, f), RootPath, graph.generatedAt)

\* C22: for every permutation of the list of ParseResults, buildGraph gives
\* the same set of node ids and the same set of imports edges (source,
\* target), with the same set of names on each
C22_ImportEdgesAreOrderIndependent ==
  pc = "built" =>
    \A f \in Permutations(1..Len(parseResults)) :
      /\ Ids(builtInOrder(f).nodes) = Ids(graph.nodes)
      /\ importEdgeSet(builtInOrder(f)) = importEdgeSet(graph)

\* three files, two of which export the imported name, with an edge to each
C22_Witness ==
  /\ pc = "built"
  /\ Len(parseResults) = 3
  /\ parseResults[1].filePath = "/r/x/A.ts"
  /\ parseResults[3].filePath = "/r/A.ts"
  /\ Cardinality(importEdgeSet(graph)) >= 2

-----------------------------------------------------------------------------
(* Claims about resolveImport *)

\* the paths the relative branch tries for a specifier
CandidatePaths(source, importingFile) ==
  {resolve(dirname(importingFile), source) \o Extensions[x] : x \in 1..Len(Extensions)}
  \cup {pathJoin(resolve(dirname(importingFile), source), "index" \o Extensions[x]) :
          x \in 1..Len(Extensions)}

\* the nodes, by their place, that a candidate path holds and that export an
\* imported name
ExportersAt(entries, paths, names) ==
  {i \in 1..Len(entries) :
     /\ entries[i].file \in paths
     /\ \E n \in 1..Len(names) : Has(entries[i].node.exports, names[n])}

\* the targets of an import are nodes at the candidate paths that export an
\* imported name, none twice, and every imported name exported there has one
TargetsAreTheCandidates(entries, targets, paths, names) ==
  /\ \A t \in 1..Len(targets) : targets[t] \in ExportersAt(entries, paths, names)
  /\ \A t, u \in 1..Len(targets) : targets[t] = targets[u] => t = u
  /\ \A n \in 1..Len(names) :
       ExportersAt(entries, paths, <<names[n]>>) # {} =>
         \E t \in 1..Len(targets) : Has(entries[targets[t]].node.exports, names[n])

ResolvesRelatively(entries, imp, importingFile) ==
  /\ startsWith(imp.source, ".")
  /\ ExportersAt(entries, CandidatePaths(imp.source, importingFile), imp.names) # {}

TargetsOf(entries, imp, importingFile) ==
  resolveImport(imp.source, imp.names, importingFile,
                buildExportToComponent(entries, RootPath))

\* C23: when a relative specifier resolves, with some extension or an index
\* file, to a node exporting an imported name, the targets of the import are
\* the nodes found at the candidate paths: none of another file, none twice
C23_RelativeResolutionExcludesScan ==
  pc = "built" =>
    \A r \in 1..Len(parseResults) :
      \A m \in 1..Len(parseResults[r].imports) :
        ResolvesRelatively(collectNodes(parseResults), parseResults[r].imports[m],
                           parseResults[r].filePath) =>
          TargetsAreTheCandidates(
            collectNodes(parseResults),
            TargetsOf(collectNodes(parseResults), parseResults[r].imports[m],
                      parseResults[r].filePath),
            CandidatePaths(parseResults[r].imports[m].source, parseResults[r].filePath),
            parseResults[r].imports[m].names)

\* B imports Foo from ./A, which /r/A.ts resolves, while /r/x/A.ts exports Foo too
C23_Witness ==
  /\ pc = "built"
  /\ Len(parseResults) = 3
  /\ \E r \in 1..3 :
       /\ parseResults[r].filePath = ImportingPath
       /\ parseResults[r].imports[1] = ImportOf("./A", <<"Foo">>)
       /\ ResolvesRelatively(collectNodes(parseResults), parseResults[r].imports[1],
                             ImportingPath)
  /\ \E r \in 1..3 : parseResults[r].filePath = "/r/x/A.ts"
  /\ Len(graph.edges) = 1

(* extractFunctionBody *)

RECURSIVE closingBrace(_, _, _)
\* the place of the brace that closes the one opened before place i, depth
\* braces being open; 0 when none does
closingBrace(content, i, depth) ==
  IF i > Len(content) THEN 0
  ELSE IF At(content, i) = "{" THEN closingBrace(content, i + 1, depth + 1)
  ELSE IF At(content, i) = "}"
    THEN (IF depth = 1 THEN i ELSE closingBrace(content, i + 1, depth - 1))
  ELSE closingBrace(content, i + 1, depth)

FunctionHeader == "function Foo() "

\* a function declaration whose own block opens right after the header and is
\* closed
HasBlock(content) ==
  /\ Len(content) > Len(FunctionHeader)
  /\ SubSeq(content, 1, Len(FunctionHeader)) = FunctionHeader
  /\ At(content, Len(FunctionHeader) + 1) = "{"
  /\ closingBrace(content, Len(FunctionHeader) + 2, 1) > 0

OwnBlock(content) ==
  SubSeq(content, Len(FunctionHeader) + 1, closingBrace(content, Len(FunctionHeader) + 2, 1))

\* C24: for function Name(...) { ... } extractFunctionBody returns the whole
\* brace-balanced block that starts at the function's own opening brace
C24_FunctionBodyIsItsOwnBlock ==
  (pc = "returned" /\ text.to = "extractFunctionBody" /\ HasBlock(text.input))
    => text.result = OwnBlock(text.input)

\* the function's block is returned without its opening brace, or not at all
C24_BodyLosesItsBrace ==
  /\ pc = "returned"
  /\ text.to = "extractFunctionBody"
  /\ text.input = "function Foo() {x}"
  /\ text.result = "x}"

(* sanitizeId *)

IsWordString(id) == \A i \in 1..Len(id) : isWord(At(id, i))

IsClosed(g) ==
  \A e \in 1..Len(g.edges) :
    g.edges[e].source \in Ids(g.nodes) /\ g.edges[e].target \in Ids(g.nodes)

ShapeIdSet(out) ==
  UNION {{out.subgraphs[t].shapes[i].id : i \in 1..Len(out.subgraphs[t].shapes)} :
           t \in 1..Len(out.subgraphs)}

\* C25: each edge of a built graph joins two nodes of that graph, and so does
\* each edge of a depth-filtered graph and each link of a capped diagram
C25_EdgesJoinNodesOfTheGraph ==
  /\ graph.built => IsClosed(graph)
  /\ pc = "filtered" => IsClosed(view.graph)
  /\ pc = "drawn" =>
       \A l \in 1..Len(diagram.out.links) :
         /\ diagram.out.links[l].source \in ShapeIdSet(diagram.out)
         /\ diagram.out.links[l].target \in ShapeIdSet(diagram.out)

\* a built graph with an edge was drawn with a cap that cut one of its ends
C25_Witness ==
  /\ pc = "drawn"
  /\ Len(graph.edges) > 0
  /\ diagram.maxNodes > 0
  /\ diagram.maxNodes < Len(graph.nodes)
  /\ Len(diagram.out.links) < Len(graph.edges)

(* generateFocusedMermaid *)

\* C26: the traversal of generateFocusedMermaid selects the nodes and the
\* edges that filterGraphByDepth selects for the same focus and depth
C26_FocusedViewIsTheFilteredGraph ==
  pc = "focused" =>
    /\ view.graph.nodes = filterGraphByDepth(graph, view.focus, view.depth).nodes
    /\ view.graph.edges = filterGraphByDepth(graph, view.focus, view.depth).edges

\* a focused view that left out a node and reached one over an edge whose other
\* end was already visited
C26_Witness ==
  /\ pc = "focused"
  /\ view.depth >= 1
  /\ Len(view.graph.nodes) >= 2
  /\ Len(view.graph.nodes) < Len(graph.nodes)
  /\ Len(view.graph.edges) >= 2

\* C27: the diagram of generateFocusedMermaid(G, f, depth) has a shape for
\* the focus node f of G
C27_FocusNodeIsDrawn ==
  (pc = "focused" /\ view.focus \in Ids(graph.nodes))
    => sanitizeId(view.focus) \in ShapeIdSet(diagram.out)

\* the focus of a neighbourhood of more than maxNodes nodes is cut
C27_FocusIsCut ==
  /\ pc = "focused"
  /\ view.focus \in Ids(graph.nodes)
  /\ view.focus \in Ids(view.graph.nodes)
  /\ Len(view.graph.nodes) > DEFAULT_CONFIG.maxNodes
  /\ sanitizeId(view.focus) \notin ShapeIdSet(diagram.out)

(* approvals *)

ApprovalsSent == {i \in 1..Len(monitor.sent) : monitor.sent[i].text = "y"}

\* C29: an approval is sent only while a prompt is pending, so no prompt is
\* approved twice and approvedCount never exceeds the number of prompts
C29_ApprovalNeedsPendingPrompt ==
  monitor.initialized =>
    /\ \A i \in ApprovalsSent : monitor.sent[i].prompt # NoPrompt
    /\ \A i, j \in ApprovalsSent : monitor.sent[i].prompt = monitor.sent[j].prompt => i = j
    /\ monitor.approvedCount <= monitor.detected

\* one prompt was detected and two approvals were sent, the second by the timer
\* with no prompt pending
C29_ApprovedTwice ==
  /\ monitor.initialized
  /\ monitor.detected = 1
  /\ monitor.approvedCount = 2
  /\ Len(monitor.sent) = 2
  /\ monitor.sent[1] = [text |-> "y", prompt |-> "1"]
  /\ monitor.sent[2] = [text |-> "y", prompt |-> NoPrompt]

====
